---- MODULE Spec2Model ----
(***************************************************************************)
(* The floorplan editor of replit_floorplan: the page component            *)
(* (Floorplan, which owns the entity collections, the selection and the    *)
(* tool) and the canvas component (FloorplanCanvas, which owns the drawing *)
(* session and the drag state), as one state machine with one action per   *)
(* event handler.                                                          *)
(*                                                                         *)
(* Numbers.  World coordinates are feet in the source (IEEE doubles).      *)
(* Here a coordinate is an integer count of 1/Unit foot, and every         *)
(* quotient is rounded to the nearest such count.  Angles are integer      *)
(* degrees.  All pointer inputs are drawn from finite sets of world        *)
(* points; the view transform only converts canvas pixels to world points, *)
(* so the pointer is given directly in world coordinates and the zoom is   *)
(* the initial one (1).                                                    *)
(***************************************************************************)
EXTENDS Integers, Sequences, FiniteSets, TLC

\* Units per foot of the integer coordinates.
Unit == 20

\* ------------------------------------------------------------------ bounds
\* Ids handed out by crypto.randomUUID() (entities ever created).
MaxSessionId == 1
\* Longest point list of a drawing session.
MaxPoints == 3
\* Largest stored |rotation| (degrees) a rotate drag may still be applied to.
MaxTurn == 360
\* coordinates explored, in units either side of the origin
MaxCoord == 400
\* Ids handed out while a door is placed on a wall: the wall and the door.
MaxPlaceId == 2
\* Ids handed out with two walls and one door.
MaxDoorId == 3
\* Ids handed out with a short wall and one door.
MaxResizeId == 2
\* Ids handed out with one wall and two doors.
MaxOverlapId == 3
\* Ids handed out with one wall and one pathway.
MaxSelectId == 2
\* Ids handed out while one wall is turned.
MaxTransformId == 1
\* Largest stored |rotation| explored over four quarter turns in succession.
MaxQuarterTurn == 450
\* points of a pathway stroke
MaxStrokePoints == 4

\* ------------------------------------------------------- program constants
GRID_SPACING_FT == 5
DRIVEWAY_SINGLE_FT == 8
PATIO_SMALL_FT == 8
\* handleMouseDown passes 1.0 ft to findWallSegmentAtPoint, handleMouseMove 2.0
PLACE_THRESHOLD_FT == 1
DRAG_THRESHOLD_FT == 2
\* Math.max(2, ...) of the door resize
MIN_DOOR_WIDTH_FT == 2
\* doorPlacementMode.width offered by the door panel
DOOR_WIDTH_FT == 3
\* the width of the initial pathwayDrawingMode
PATHWAY_WIDTH_FT == 3

NULL == 0

\* --------------------------------------------------------------- arithmetic
Abs(a) == IF a < 0 THEN -a ELSE a
Min2(a, b) == IF a <= b THEN a ELSE b
Max2(a, b) == IF a >= b THEN a ELSE b

\* a / b rounded to the nearest integer, b > 0 (the model's stand-in for a
\* floating-point quotient).
RoundDiv(a, b) == (2 * a + b) \div (2 * b)

RECURSIVE SqrtSearch(_, _, _)
SqrtSearch(n, lo, hi) ==
    IF lo >= hi THEN lo
    ELSE LET mid == (lo + hi + 1) \div 2
         IN  IF mid * mid <= n THEN SqrtSearch(n, mid, hi)
             ELSE SqrtSearch(n, lo, mid - 1)

\* Math.sqrt, rounded down to a whole unit (exact on axis-aligned segments).
Sqrt(n) == SqrtSearch(n, 0, Min2(n, 4000))

Pt(x, y) == [x |-> x, y |-> y]

Dist2(p, q) == (p.x - q.x) * (p.x - q.x) + (p.y - q.y) * (p.y - q.y)

\* atan(n/d) in degrees for 0 <= n <= d, d > 0: 45q + 16q(1-q), q = n/d;
\* exact at q = 0 and q = 1.
AtanFrac(n, d) == RoundDiv(n * (45 * d + 16 * (d - n)), d * d)

\* Math.atan2(dy, dx) * (180 / Math.PI), in (-180, 180].
Atan2Deg(dy, dx) ==
    LET ax == Abs(dx)
        ay == Abs(dy)
        base == IF ax = 0 /\ ay = 0 THEN 0
                ELSE IF ax >= ay THEN AtanFrac(ay, ax)
                ELSE 90 - AtanFrac(ax, ay)
    IN  IF dx >= 0 /\ dy >= 0 THEN base
        ELSE IF dx < 0 /\ dy >= 0 THEN 180 - base
        ELSE IF dx >= 0 THEN -base
        ELSE base - 180

SeqMin(s) == CHOOSE m \in {s[i] : i \in 1..Len(s)} : \A i \in 1..Len(s) : m <= s[i]
SeqMax(s) == CHOOSE m \in {s[i] : i \in 1..Len(s)} : \A i \in 1..Len(s) : m >= s[i]
Xs(vs) == [i \in 1..Len(vs) |-> vs[i].x]
Ys(vs) == [i \in 1..Len(vs) |-> vs[i].y]

\* array.filter(e => e.id !== id)
RECURSIVE FilterOut(_, _)
FilterOut(s, id) ==
    IF s = <<>> THEN <<>>
    ELSE IF Head(s).id = id THEN FilterOut(Tail(s), id)
    ELSE <<Head(s)>> \o FilterOut(Tail(s), id)

\* array.find(e => e.id === id): the index of the first match, 0 when none
FindIdx(s, id) ==
    IF \E i \in 1..Len(s) : s[i].id = id
    THEN CHOOSE i \in 1..Len(s) : s[i].id = id /\ \A j \in 1..(i - 1) : s[j].id # id
    ELSE 0

Ids(s) == {s[i].id : i \in 1..Len(s)}

\* ----------------------------------------------------------------- geometry
\* pixelsPerFoot(DEFAULT_EDITING_DPI) * 1000 = (420 mm / 25.4 * 96 dpi) / 191.5 ft
PixelsPerFoot1000 == 8289

\* A length of px canvas pixels in world units, at zoom 1.
PxToUnits(px) == (px * 1000 * Unit) \div PixelsPerFoot1000

\* ------------------------------------------------------ coordinate transform
\* The sheet in world units: A2_WIDTH_FT = 191.5, and A2_HEIGHT_FT is
\* 191.5 * (594 / 420), to the nearest unit.
A2_WIDTH == 3830
A2_HEIGHT == RoundDiv(A2_WIDTH * 594, 420)

\* pixelsPerFoot(dpi) * 10 = (420 mm / 25.4 * dpi) / 191.5 ft, to the nearest tenth
pixelsPerFoot10(dpi) == RoundDiv(420 * dpi * 1000, 254 * 1915)

\* Canvas coordinates are kept as whole multiples of 1 / CanvasScale of a
\* pixel: a world unit times a tenth of a pixel per foot times a hundredth of
\* zoom, so that the products of worldToCanvas are exact.
CanvasScale == Unit * 10 * 100

\* The simplified transform the wall renderer once carried: world feet are
\* taken for pixels, only zoom and pan are applied.
worldToCanvasSimple(point, viewTransform, editingDPI, canvasWidth, canvasHeight) ==
    [x |-> point.x * viewTransform.zoom * 10
              + (canvasWidth \div 2 + viewTransform.panX) * CanvasScale,
     y |-> point.y * viewTransform.zoom * 10
              + (canvasHeight \div 2 + viewTransform.panY) * CanvasScale]

\* worldToCanvas: the offset from the sheet centre, scaled by pixels per foot
\* and zoom, placed at the canvas centre and shifted by the pan. viewTransform
\* holds the pan in pixels and the zoom in hundredths.
worldToCanvas(point, viewTransform, editingDPI, canvasWidth, canvasHeight) ==
    LET ppf == pixelsPerFoot10(editingDPI)
        offsetX == point.x - A2_WIDTH \div 2
        offsetY == point.y - A2_HEIGHT \div 2
    IN  [x |-> (canvasWidth \div 2) * CanvasScale
                  + offsetX * ppf * viewTransform.zoom
                  + viewTransform.panX * CanvasScale,
         y |-> (canvasHeight \div 2) * CanvasScale
                  + offsetY * ppf * viewTransform.zoom
                  + viewTransform.panY * CanvasScale]

\* canvasToWorld, the inverse: the pan and the canvas centre are taken off,
\* the rest is divided by pixels per foot times zoom and moved back by the
\* sheet centre.
canvasToWorld(point, viewTransform, editingDPI, canvasWidth, canvasHeight) ==
    LET ppf == pixelsPerFoot10(editingDPI)
        offsetX == RoundDiv(point.x - viewTransform.panX * CanvasScale
                               - (canvasWidth \div 2) * CanvasScale,
                            ppf * viewTransform.zoom)
        offsetY == RoundDiv(point.y - viewTransform.panY * CanvasScale
                               - (canvasHeight \div 2) * CanvasScale,
                            ppf * viewTransform.zoom)
    IN  Pt(offsetX + A2_WIDTH \div 2, offsetY + A2_HEIGHT \div 2)

\* handleZoomIn and handleZoomOut: a step of 1.2, kept within 0.1 and 5.
handleZoomIn(t) ==
    LET zoom == RoundDiv(t.zoom * 12, 10)
    IN  [t EXCEPT !.zoom = IF zoom < 500 THEN zoom ELSE 500]
handleZoomOut(t) ==
    LET zoom == RoundDiv(t.zoom * 10, 12)
    IN  [t EXCEPT !.zoom = IF zoom > 10 THEN zoom ELSE 10]

\* The point of segment [v1, v2] closest to point (v1 # v2):
\* t = clamp(((p - v1) . d) / |d|^2, 0, 1), v1 + t d.
ClosestOnSegment(point, v1, v2) ==
    LET dx == v2.x - v1.x
        dy == v2.y - v1.y
        len2 == dx * dx + dy * dy
        dot == (point.x - v1.x) * dx + (point.y - v1.y) * dy
        tc == Max2(0, Min2(len2, dot))
    IN  Pt(v1.x + RoundDiv(tc * dx, len2), v1.y + RoundDiv(tc * dy, len2))

\* distanceToSegment, squared
DistToSegment2(point, v, w) ==
    IF v = w THEN Dist2(point, v) ELSE Dist2(point, ClosestOnSegment(point, v, w))

\* The indices i the segment loops of door-renderer visit for a shape:
\* one segment for a line, n - 1 for a freehand, n (closed) otherwise.
SegCount(shape) ==
    LET n == Len(shape.vertices)
    IN  IF shape.type = "line" THEN Min2(n, 1)
        ELSE IF shape.type = "freehand" THEN Max2(n - 1, 0)
        ELSE n

SegStart(shape, i) == shape.vertices[i + 1]
SegEnd(shape, i) == shape.vertices[((i + 1) % Len(shape.vertices)) + 1]

IsWallBearing(shape) == shape.layer = "house" \/ shape.layer = "wall"

\* A search that accepts segments up to six thresholds away.
WallCandidatesWide(shs, point, thresholdFt) ==
    {c \in UNION {{<<k, i>> : i \in 0..(SegCount(shs[k]) - 1)} : k \in 1..Len(shs)} :
        /\ IsWallBearing(shs[c[1]])
        /\ SegStart(shs[c[1]], c[2]) # SegEnd(shs[c[1]], c[2])
        /\ Dist2(point, ClosestOnSegment(point, SegStart(shs[c[1]], c[2]),
                                          SegEnd(shs[c[1]], c[2])))
             < (6 * thresholdFt * Unit) * (6 * thresholdFt * Unit)}

\* The (shape index, segment index) pairs findWallSegmentAtPoint accepts:
\* wall-bearing shape, non-degenerate segment, dist < threshold.
WallCandidates(shs, point, thresholdFt) ==
    {c \in UNION {{<<k, i>> : i \in 0..(SegCount(shs[k]) - 1)} : k \in 1..Len(shs)} :
        /\ IsWallBearing(shs[c[1]])
        /\ SegStart(shs[c[1]], c[2]) # SegEnd(shs[c[1]], c[2])
        /\ Dist2(point, ClosestOnSegment(point, SegStart(shs[c[1]], c[2]),
                                          SegEnd(shs[c[1]], c[2])))
             < (thresholdFt * Unit) * (thresholdFt * Unit)}

WallCandDist2(shs, point, c) ==
    Dist2(point, ClosestOnSegment(point, SegStart(shs[c[1]], c[2]), SegEnd(shs[c[1]], c[2])))

LexBefore(c, d) == c[1] < d[1] \/ (c[1] = d[1] /\ c[2] <= d[2])

\* findWallSegmentAtPoint: the candidate of least distance, the first one in
\* iteration order among equals (the loop replaces only on dist < best).
findWallSegmentAtPoint(shs, point, thresholdFt) ==
    LET cands == WallCandidates(shs, point, thresholdFt)
    IN  IF cands = {} THEN [found |-> FALSE]
        ELSE LET best == CHOOSE c \in cands : \A d \in cands :
                            \/ WallCandDist2(shs, point, c) < WallCandDist2(shs, point, d)
                            \/ /\ WallCandDist2(shs, point, c) = WallCandDist2(shs, point, d)
                               /\ LexBefore(c, d)
                 v1 == SegStart(shs[best[1]], best[2])
                 v2 == SegEnd(shs[best[1]], best[2])
             IN  [found |-> TRUE,
                  shapeId |-> shs[best[1]].id,
                  segmentIndex |-> best[2],
                  closestPoint |-> ClosestOnSegment(point, v1, v2),
                  rotation |-> Atan2Deg(v2.y - v1.y, v2.x - v1.x)]

\* a ray test that takes any crossing, not an odd number of them, as inside
anyCrossing(point, vs) ==
    \E i \in 1..Len(vs) :
        LET j == IF i = 1 THEN Len(vs) ELSE i - 1
        IN  /\ (vs[i].y > point.y) # (vs[j].y > point.y)
            /\ IF vs[j].y - vs[i].y > 0
               THEN (point.x - vs[i].x) * (vs[j].y - vs[i].y)
                       < (vs[j].x - vs[i].x) * (point.y - vs[i].y)
               ELSE (point.x - vs[i].x) * (vs[j].y - vs[i].y)
                       > (vs[j].x - vs[i].x) * (point.y - vs[i].y)

\* Ray casting, with the quotient of the source cross-multiplied.
pointInPolygon(point, vs) ==
    LET n == Len(vs)
        prev(i) == IF i = 1 THEN n ELSE i - 1
        crosses(i) ==
            LET xi == vs[i].x
                yi == vs[i].y
                xj == vs[prev(i)].x
                yj == vs[prev(i)].y
            IN  /\ (yi > point.y) # (yj > point.y)
                /\ IF yj - yi > 0
                   THEN (point.x - xi) * (yj - yi) < (xj - xi) * (point.y - yi)
                   ELSE (point.x - xi) * (yj - yi) > (xj - xi) * (point.y - yi)
    IN  Cardinality({i \in 1..n : crosses(i)}) % 2 = 1

\* The bounding box of vs grown by tol units contains point.
InBounds(point, vs, tol) ==
    /\ point.x >= SeqMin(Xs(vs)) - tol
    /\ point.x <= SeqMax(Xs(vs)) + tol
    /\ point.y >= SeqMin(Ys(vs)) - tol
    /\ point.y <= SeqMax(Ys(vs)) + tol

isPointInShape(point, shape) ==
    IF ~InBounds(point, shape.vertices, Unit \div 2) THEN FALSE
    ELSE IF shape.type \in {"polygon", "rectangle"} THEN pointInPolygon(point, shape.vertices)
    ELSE \E i \in 1..(Len(shape.vertices) - 1) :
            DistToSegment2(point, shape.vertices[i], shape.vertices[i + 1]) < Unit * Unit

isPointInDriveway(point, driveway) ==
    IF Len(driveway.vertices) # 4 THEN FALSE
    ELSE IF ~InBounds(point, driveway.vertices, Unit \div 2) THEN FALSE
    ELSE pointInPolygon(point, driveway.vertices)

isPointInPatio(point, patio) ==
    IF Len(patio.vertices) < 3 THEN FALSE
    ELSE IF ~InBounds(point, patio.vertices, Unit \div 2) THEN FALSE
    ELSE pointInPolygon(point, patio.vertices)

\* dist <= width / 2 + 0.5 for some segment
isPointNearPathway(point, pathway) ==
    IF Len(pathway.vertices) < 2 THEN FALSE
    ELSE \E i \in 1..(Len(pathway.vertices) - 1) :
            4 * DistToSegment2(point, pathway.vertices[i], pathway.vertices[i + 1])
                <= (pathway.width + Unit) * (pathway.width + Unit)

\* The last element of s that satisfies Hit (reverse iteration): its id, or NULL.
LastHit(s, Hit(_)) ==
    IF \E i \in 1..Len(s) : Hit(s[i])
    THEN s[CHOOSE i \in 1..Len(s) : Hit(s[i]) /\ \A j \in (i + 1)..Len(s) : ~Hit(s[j])].id
    ELSE NULL

findShapeAtPoint(shs, point) == LastHit(shs, LAMBDA s : isPointInShape(point, s))
findDrivewayAtPoint(ds, point) == LastHit(ds, LAMBDA d : isPointInDriveway(point, d))
findPatioAtPoint(ps, point) == LastHit(ps, LAMBDA p : isPointInPatio(point, p))
findPathwayAtPoint(ps, point) == LastHit(ps, LAMBDA p : isPointNearPathway(point, p))

\* findDoorAtPoint iterates forward: the first door with
\* dist < threshold (1.0 ft) + width / 2.
DoorHit(point, door) ==
    4 * Dist2(point, door.position) < (2 * Unit + door.width) * (2 * Unit + door.width)

findDoorAtPoint(ds, point) ==
    IF \E i \in 1..Len(ds) : DoorHit(point, ds[i])
    THEN ds[CHOOSE i \in 1..Len(ds) :
                DoorHit(point, ds[i]) /\ \A j \in 1..(i - 1) : ~DoorHit(point, ds[j])].id
    ELSE NULL

\* 1000 sin(deg), Bhaskara's quotient on [0, 180] (exact at multiples of 30
\* and 90), and 1000 cos(deg).
Sin1000(deg) ==
    LET m == deg % 360
        h == IF m <= 180 THEN m ELSE m - 180
        s == RoundDiv(4000 * h * (180 - h), 40500 - h * (180 - h))
    IN  IF m <= 180 THEN s ELSE -s
Cos1000(deg) == Sin1000(deg + 90)

\* findDoorHandle: the width ends of the door along its rotation, within 0.5 ft.
findDoorHandle(door, point) ==
    LET ox == RoundDiv(Cos1000(door.rotation) * door.width, 2000)
        oy == RoundDiv(Sin1000(door.rotation) * door.width, 2000)
        startPos == Pt(door.position.x - ox, door.position.y - oy)
        endPos == Pt(door.position.x + ox, door.position.y + oy)
    IN  IF 4 * Dist2(point, startPos) < Unit * Unit THEN "start"
        ELSE IF 4 * Dist2(point, endPos) < Unit * Unit THEN "end"
        ELSE "none"

\* The ten handles of findHandleAtPoint / findDrivewayHandle in test order, on
\* the axis-aligned bounding box of the vertices (the rotation is not applied).
BoxHandles(vs) ==
    LET minX == SeqMin(Xs(vs))
        maxX == SeqMax(Xs(vs))
        minY == SeqMin(Ys(vs))
        maxY == SeqMax(Ys(vs))
        cx == (minX + maxX) \div 2
        cy == (minY + maxY) \div 2
    IN  << [type |-> "nw", pos |-> Pt(minX, minY)],
           [type |-> "n", pos |-> Pt(cx, minY)],
           [type |-> "ne", pos |-> Pt(maxX, minY)],
           [type |-> "e", pos |-> Pt(maxX, cy)],
           [type |-> "se", pos |-> Pt(maxX, maxY)],
           [type |-> "s", pos |-> Pt(cx, maxY)],
           [type |-> "sw", pos |-> Pt(minX, maxY)],
           [type |-> "w", pos |-> Pt(minX, cy)],
           [type |-> "center", pos |-> Pt(cx, cy)],
           [type |-> "rotate", pos |-> Pt(cx, minY - PxToUnits(30))] >>

\* The first handle of hs within its radius of point, "none" when none.
FirstHandle(hs, point, Radius(_)) ==
    IF \E i \in 1..Len(hs) : Dist2(point, hs[i].pos) <= Radius(hs[i]) * Radius(hs[i])
    THEN hs[CHOOSE i \in 1..Len(hs) :
                /\ Dist2(point, hs[i].pos) <= Radius(hs[i]) * Radius(hs[i])
                /\ \A j \in 1..(i - 1) :
                      Dist2(point, hs[j].pos) > Radius(hs[j]) * Radius(hs[j])].type
    ELSE "none"

\* hitRadius 8 px, 10 px for the rotate handle
findHandleAtPoint(shape, point) ==
    IF Len(shape.vertices) = 0 THEN "none"
    ELSE FirstHandle(BoxHandles(shape.vertices), point,
                     LAMBDA h : IF h.type = "rotate" THEN PxToUnits(10) ELSE PxToUnits(8))

\* drawHandles: the same ten handles, drawn under ctx.rotate(shape.rotation)
\* about the centre of the box.
drawHandles(shape) ==
    LET hs == BoxHandles(shape.vertices)
        c == hs[9].pos
        Turned(q) ==
            Pt(c.x + RoundDiv((q.x - c.x) * Cos1000(shape.rotation)
                                - (q.y - c.y) * Sin1000(shape.rotation), 1000),
               c.y + RoundDiv((q.x - c.x) * Sin1000(shape.rotation)
                                + (q.y - c.y) * Cos1000(shape.rotation), 1000))
    IN  [i \in 1..Len(hs) |->
            [type |-> hs[i].type,
             pos |-> IF shape.rotation = 0 THEN hs[i].pos ELSE Turned(hs[i].pos)]]

\* threshold 10 px, strict
findDrivewayHandle(driveway, point) ==
    IF Len(driveway.vertices) # 4 THEN "none"
    ELSE LET hs == BoxHandles(driveway.vertices)
             r2 == PxToUnits(10) * PxToUnits(10)
         IN  IF \E i \in 1..Len(hs) : Dist2(point, hs[i].pos) < r2
             THEN hs[CHOOSE i \in 1..Len(hs) :
                        /\ Dist2(point, hs[i].pos) < r2
                        /\ \A j \in 1..(i - 1) : Dist2(point, hs[j].pos) >= r2].type
             ELSE "none"

\* findPatioHandle: vertex handles first, then edge midpoints, radius 10 px.
findPatioHandle(patio, point) ==
    LET vs == patio.vertices
        n == Len(vs)
        r2 == PxToUnits(10) * PxToUnits(10)
        mid(i) == Pt((vs[i].x + vs[(i % n) + 1].x) \div 2, (vs[i].y + vs[(i % n) + 1].y) \div 2)
        vhit(i) == Dist2(point, vs[i]) <= r2
        ehit(i) == Dist2(point, mid(i)) <= r2
    IN  IF \E i \in 1..n : vhit(i)
        THEN [kind |-> "vertex",
              index |-> (CHOOSE i \in 1..n : vhit(i) /\ \A j \in 1..(i - 1) : ~vhit(j)) - 1]
        ELSE IF \E i \in 1..n : ehit(i)
        THEN [kind |-> "edge",
              index |-> (CHOOSE i \in 1..n : ehit(i) /\ \A j \in 1..(i - 1) : ~ehit(j)) - 1]
        ELSE [kind |-> "none", index |-> 0]

\* snapToGrid(point, GRID_SPACING_FT): each coordinate to the nearest multiple.
snapToGrid(point) ==
    LET g == GRID_SPACING_FT * Unit
    IN  Pt(RoundDiv(point.x, g) * g, RoundDiv(point.y, g) * g)

createRectangleVertices(points) ==
    IF Len(points) # 2 THEN points
    ELSE << Pt(points[1].x, points[1].y), Pt(points[2].x, points[1].y),
            Pt(points[2].x, points[2].y), Pt(points[1].x, points[2].y) >>

\* a width constraint that anchors the fixed axis at the first vertex
constrainAnchored(vs, targetWidth) ==
    IF Len(vs) # 4 THEN vs
    ELSE IF Abs(vs[2].x - vs[1].x) > Abs(vs[4].y - vs[1].y)
         THEN << Pt(vs[1].x, vs[1].y), Pt(vs[2].x, vs[1].y),
                 Pt(vs[3].x, vs[1].y + targetWidth), Pt(vs[4].x, vs[1].y + targetWidth) >>
         ELSE << Pt(vs[1].x, vs[1].y), Pt(vs[1].x + targetWidth, vs[2].y),
                 Pt(vs[1].x + targetWidth, vs[3].y), Pt(vs[1].x, vs[4].y) >>

\* a width constraint that fixes the longer axis instead of the shorter
constrainAlong(vs, targetWidth) ==
    IF Len(vs) # 4 THEN vs
    ELSE LET half == targetWidth \div 2
             centerY == (vs[1].y + vs[4].y) \div 2
             centerX == (vs[1].x + vs[2].x) \div 2
         IN  IF Abs(vs[2].x - vs[1].x) <= Abs(vs[4].y - vs[1].y)
             THEN << Pt(vs[1].x, centerY - half), Pt(vs[2].x, centerY - half),
                     Pt(vs[3].x, centerY + half), Pt(vs[4].x, centerY + half) >>
             ELSE << Pt(centerX - half, vs[1].y), Pt(centerX + half, vs[2].y),
                     Pt(centerX + half, vs[3].y), Pt(centerX - half, vs[4].y) >>

\* constrainRectangleWidth(vertices, targetWidth), targetWidth in units
constrainRectangleWidth(vs, targetWidth) ==
    IF Len(vs) # 4 THEN vs
    ELSE LET width == Abs(vs[2].x - vs[1].x)
             height == Abs(vs[4].y - vs[1].y)
             half == targetWidth \div 2
             centerY == (vs[1].y + vs[4].y) \div 2
             centerX == (vs[1].x + vs[2].x) \div 2
         IN  IF width > height
             THEN << Pt(vs[1].x, centerY - half), Pt(vs[2].x, centerY - half),
                     Pt(vs[3].x, centerY + half), Pt(vs[4].x, centerY + half) >>
             ELSE << Pt(centerX - half, vs[1].y), Pt(centerX + half, vs[2].y),
                     Pt(centerX + half, vs[3].y), Pt(centerX - half, vs[4].y) >>

\* smoothPathway(vertices, minDistance): decimation, then the 3-point average
\* of the interior points.
RECURSIVE Decimate(_, _, _)
Decimate(vs, kept, minDist) ==
    IF vs = <<>> THEN kept
    ELSE IF Dist2(Head(vs), kept[Len(kept)]) >= minDist * minDist
         THEN Decimate(Tail(vs), Append(kept, Head(vs)), minDist)
         ELSE Decimate(Tail(vs), kept, minDist)

\* the decimation alone, the last point not put back
decimateOnly(vs, minDist) == Decimate(Tail(vs), <<vs[1]>>, minDist)

smoothPathway(vs, minDist) ==
    IF Len(vs) < 3 THEN vs
    ELSE LET f0 == Decimate(Tail(vs), <<vs[1]>>, minDist)
             filtered == IF vs[Len(vs)] # f0[Len(f0)] THEN Append(f0, vs[Len(vs)]) ELSE f0
             m == Len(filtered)
         IN  IF m < 3 THEN filtered
             ELSE [i \in 1..m |->
                     IF i = 1 \/ i = m THEN filtered[i]
                     ELSE Pt(RoundDiv(filtered[i - 1].x + filtered[i].x + filtered[i + 1].x, 3),
                             RoundDiv(filtered[i - 1].y + filtered[i].y + filtered[i + 1].y, 3))]

\* ------------------------------------------------------------------- state
VARIABLES
    \* Floorplan (the page): the collections, the selection, the tool
    shapes, doors, driveways, pathways, patios,
    selectedShapeId, selectedDoorId, selectedDrivewayId, selectedPathwayId,
    selectedPatioId,
    activeTool, snapEnabled, currentStep,
    doorPlacementMode, drivewayDrawingMode, pathwayDrawingMode, patioDrawingMode,
    \* FloorplanCanvas: the drawing session and the drags
    isDrawing, currentPoints, dragState, doorDragState, isPanning, spacePressed,
    \* the title of the last toast shown, "" before the first
    toast,
    \* the ids crypto.randomUUID() has handed out so far
    nextId,
    \* the handler that ran last and the branch it took
    lastEvent,
    \* the run of quarter-turn rotate drags of one entity in progress: the
    \* entity, its rotation before the first drag, the drags completed, and the
    \* angle of the pointer from the start of the current drag
    rotateDrags,
    \* the active tool at the pointer-down that started the drawing session in
    \* progress, NoTool outside a session; Unfollowed throughout a behaviour
    \* whose sessions are not followed
    sessionTool,
    \* the pointer position and the door's width at the pointer-down that
    \* started the width-handle drag in progress
    resizeStart

collections == <<shapes, doors, driveways, pathways, patios>>
selection == <<selectedShapeId, selectedDoorId, selectedDrivewayId, selectedPathwayId,
               selectedPatioId>>
modes == <<doorPlacementMode, drivewayDrawingMode, pathwayDrawingMode, patioDrawingMode>>
pageVars == <<collections, selection, modes, activeTool, snapEnabled, currentStep>>
session == <<isDrawing, currentPoints>>
canvasVars == <<session, dragState, doorDragState, isPanning, spacePressed>>
vars == <<pageVars, canvasVars, toast, nextId, lastEvent, rotateDrags, sessionTool, resizeStart>>

Event(handler, branch) == [handler |-> handler, branch |-> branch]

NoDrag == [active |-> FALSE]
NoTool == "none"
Unfollowed == "unfollowed"
\* the drags of a full turn by quarter turns
QuarterTurns == 4
NoTurns == [id |-> NULL, base |-> 0, count |-> 0, angle |-> 0]
PlacementOff == [active |-> FALSE, doorType |-> "single", width |-> DOOR_WIDTH_FT * Unit]

\* The width of a door whose resize divided by a zero wall length (NaN).
NaN == 0 - 1

Mounted ==
    /\ shapes = <<>> /\ doors = <<>> /\ driveways = <<>> /\ pathways = <<>> /\ patios = <<>>
    /\ selectedShapeId = NULL /\ selectedDoorId = NULL /\ selectedDrivewayId = NULL
    /\ selectedPathwayId = NULL /\ selectedPatioId = NULL
    /\ activeTool = "select" /\ snapEnabled = TRUE /\ currentStep = "plot-size"
    /\ doorPlacementMode = PlacementOff
    /\ drivewayDrawingMode = FALSE /\ pathwayDrawingMode = FALSE /\ patioDrawingMode = FALSE
    /\ isDrawing = FALSE /\ currentPoints = <<>>
    /\ dragState = NoDrag /\ doorDragState = NoDrag
    /\ isPanning = FALSE /\ spacePressed = FALSE
    /\ toast = ""
    /\ nextId = 1
    /\ lastEvent = Event("mount", "")
    /\ rotateDrags = NoTurns
    /\ resizeStart = NoDrag

Init == Mounted /\ sessionTool = Unfollowed

\* the same state, its drawing sessions followed
InitFollowed == Mounted /\ sessionTool = NoTool

\* sessionTool after a step: the active tool when the step starts a session,
\* NoTool when it leaves none in progress
FollowedTool(starts, drawing) ==
    IF sessionTool = Unfollowed THEN Unfollowed
    ELSE IF starts THEN activeTool
    ELSE IF drawing THEN sessionTool
    ELSE NoTool

\* layer of a shape created on the current wizard step
StepLayer ==
    IF currentStep = "plot-size" THEN "plot"
    ELSE IF currentStep = "house-shape" THEN "house"
    ELSE IF currentStep = "walls" THEN "wall"
    ELSE "default"

NewShape(type, vs) ==
    [id |-> nextId, type |-> type, vertices |-> vs, layer |-> StepLayer, rotation |-> 0]

Sel(s, id) == s[FindIdx(s, id)]
Has(s, id) == id # NULL /\ FindIdx(s, id) # 0

\* array.map(e => e.id === id ? f(e) : e)
MapId(s, id, F(_)) == [i \in 1..Len(s) |-> IF s[i].id = id THEN F(s[i]) ELSE s[i]]

\* --------------------------------------------------------- handleMouseDown
\* The branch of handleMouseDown a pointer-down at world point p takes.
DeleteBranch(p) ==
    IF findDoorAtPoint(doors, p) # NULL THEN "delDoor"
    ELSE IF findPatioAtPoint(patios, p) # NULL THEN "delPatio"
    ELSE IF findPathwayAtPoint(pathways, p) # NULL THEN "delPathway"
    ELSE IF findDrivewayAtPoint(driveways, p) # NULL THEN "delDriveway"
    ELSE IF findShapeAtPoint(shapes, p) # NULL THEN "delShape"
    ELSE "delNone"

SelectBranch(p) ==
    IF Has(doors, selectedDoorId) /\ findDoorHandle(Sel(doors, selectedDoorId), p) # "none"
    THEN "doorHandle"
    ELSE IF findDoorAtPoint(doors, p) # NULL THEN "selDoor"
    ELSE IF /\ Has(patios, selectedPatioId)
            /\ findPatioHandle(Sel(patios, selectedPatioId), p).kind # "none"
    THEN "patioHandle"
    ELSE IF /\ Has(driveways, selectedDrivewayId)
            /\ findDrivewayHandle(Sel(driveways, selectedDrivewayId), p) # "none"
    THEN "drivewayHandle"
    ELSE IF /\ Has(shapes, selectedShapeId)
            /\ findHandleAtPoint(Sel(shapes, selectedShapeId), p) # "none"
    THEN "shapeHandle"
    ELSE IF findPatioAtPoint(patios, p) # NULL THEN "selPatio"
    ELSE IF findPathwayAtPoint(pathways, p) # NULL THEN "selPathway"
    ELSE IF findDrivewayAtPoint(driveways, p) # NULL THEN "selDriveway"
    ELSE IF findShapeAtPoint(shapes, p) # NULL THEN "selShape"
    ELSE "selNone"

MouseDownBranch(p) ==
    IF spacePressed \/ activeTool = "pan" THEN "pan"
    ELSE IF doorPlacementMode.active
    THEN IF findWallSegmentAtPoint(shapes, p, PLACE_THRESHOLD_FT).found
         THEN "placeDoor" ELSE "invalidPlacement"
    ELSE IF activeTool = "delete" THEN DeleteBranch(p)
    ELSE IF activeTool = "select" THEN SelectBranch(p)
    ELSE IF activeTool = "polygon" /\ isDrawing THEN "addPoint"
    ELSE "startDrawing"

\* A door put at the click itself instead of the wall's closest point.
NewDoorAtClick(p) ==
    LET wallResult == findWallSegmentAtPoint(shapes, p, PLACE_THRESHOLD_FT)
    IN  [id |-> nextId,
         type |-> doorPlacementMode.doorType,
         position |-> p,
         width |-> doorPlacementMode.width,
         wallShapeId |-> wallResult.shapeId,
         wallSegmentIndex |-> wallResult.segmentIndex,
         rotation |-> wallResult.rotation,
         freeRotate |-> FALSE]

\* the door handleMouseDown hands to onPlaceDoor
NewDoor(p) ==
    LET wallResult == findWallSegmentAtPoint(shapes, p, PLACE_THRESHOLD_FT)
    IN  [id |-> nextId,
         type |-> doorPlacementMode.doorType,
         position |-> wallResult.closestPoint,
         width |-> doorPlacementMode.width,
         wallShapeId |-> wallResult.shapeId,
         wallSegmentIndex |-> wallResult.segmentIndex,
         rotation |-> wallResult.rotation,
         freeRotate |-> FALSE]

BoxHandle(name) == [kind |-> "box", name |-> name, index |-> 0]

\* the point a drawing pointer-down records
DownPoint(p) == IF snapEnabled THEN snapToGrid(p) ELSE p

handleMouseDown(p) ==
    \E b \in {MouseDownBranch(p)} :
        /\ isPanning' = IF b = "pan" THEN TRUE ELSE isPanning
        \* onPlaceDoor = handlePlaceDoor: append, leave placement mode
        /\ doors' = IF b = "placeDoor" THEN Append(doors, NewDoor(p))
                    ELSE IF b = "delDoor" THEN FilterOut(doors, findDoorAtPoint(doors, p))
                    ELSE doors
        /\ doorPlacementMode' = IF b = "placeDoor" THEN PlacementOff ELSE doorPlacementMode
        /\ nextId' = IF b = "placeDoor" THEN nextId + 1 ELSE nextId
        /\ patios' = IF b = "delPatio" THEN FilterOut(patios, findPatioAtPoint(patios, p))
                     ELSE patios
        /\ pathways' = IF b = "delPathway"
                       THEN FilterOut(pathways, findPathwayAtPoint(pathways, p))
                       ELSE pathways
        /\ driveways' = IF b = "delDriveway"
                        THEN FilterOut(driveways, findDrivewayAtPoint(driveways, p))
                        ELSE driveways
        /\ shapes' = IF b = "delShape" THEN FilterOut(shapes, findShapeAtPoint(shapes, p))
                     ELSE shapes
        /\ toast' = IF b = "placeDoor" THEN "Door Added"
                    ELSE IF b = "invalidPlacement" THEN "Invalid Placement"
                    ELSE IF b = "delDoor" THEN "Door Deleted"
                    ELSE IF b = "delPatio" THEN "Patio Deleted"
                    ELSE IF b = "delPathway" THEN "Pathway Deleted"
                    ELSE IF b = "delDriveway" THEN "Driveway Deleted"
                    ELSE IF b = "delShape" THEN "Shape Deleted"
                    ELSE toast
        /\ doorDragState' =
              IF b = "doorHandle"
              THEN [active |-> TRUE, doorId |-> selectedDoorId,
                    handle |-> findDoorHandle(Sel(doors, selectedDoorId), p), startPoint |-> p]
              ELSE IF b = "selDoor"
              THEN [active |-> TRUE, doorId |-> findDoorAtPoint(doors, p),
                    handle |-> "center", startPoint |-> p]
              ELSE doorDragState
        /\ dragState' =
              IF b = "patioHandle"
              THEN [active |-> TRUE, shapeId |-> selectedPatioId,
                    handle |-> findPatioHandle(Sel(patios, selectedPatioId), p),
                    startPoint |-> p,
                    originalVertices |-> Sel(patios, selectedPatioId).vertices]
              ELSE IF b = "drivewayHandle"
              THEN [active |-> TRUE, shapeId |-> selectedDrivewayId,
                    handle |-> BoxHandle(findDrivewayHandle(Sel(driveways, selectedDrivewayId), p)),
                    startPoint |-> p,
                    originalVertices |-> Sel(driveways, selectedDrivewayId).vertices]
              ELSE IF b = "shapeHandle"
              THEN [active |-> TRUE, shapeId |-> selectedShapeId,
                    handle |-> BoxHandle(findHandleAtPoint(Sel(shapes, selectedShapeId), p)),
                    startPoint |-> p,
                    originalVertices |-> Sel(shapes, selectedShapeId).vertices]
              ELSE dragState
        /\ selectedDoorId' =
              IF b = "selDoor" THEN findDoorAtPoint(doors, p)
              ELSE IF b \in {"selPatio", "selPathway", "selDriveway", "selShape", "selNone"}
              THEN NULL
              ELSE selectedDoorId
        /\ selectedShapeId' =
              IF b = "selShape" THEN findShapeAtPoint(shapes, p)
              ELSE IF b \in {"delShape", "selDoor", "selPatio", "selPathway", "selDriveway",
                             "selNone"}
              THEN NULL
              ELSE selectedShapeId
        /\ selectedPatioId' =
              IF b = "selPatio" THEN findPatioAtPoint(patios, p)
              ELSE IF b \in {"delPatio", "selPathway", "selDriveway", "selShape", "selNone"}
              THEN NULL
              ELSE selectedPatioId
        /\ selectedPathwayId' =
              IF b = "selPathway" THEN findPathwayAtPoint(pathways, p)
              ELSE IF b \in {"delPathway", "selPatio", "selDriveway", "selShape", "selNone"}
              THEN NULL
              ELSE selectedPathwayId
        /\ selectedDrivewayId' =
              IF b = "selDriveway" THEN findDrivewayAtPoint(driveways, p)
              ELSE IF b \in {"delDriveway", "selPatio", "selPathway", "selShape", "selNone"}
              THEN NULL
              ELSE selectedDrivewayId
        /\ isDrawing' = IF b = "startDrawing" THEN TRUE ELSE isDrawing
        /\ currentPoints' = IF b = "addPoint" THEN Append(currentPoints, DownPoint(p))
                            ELSE IF b = "startDrawing" THEN <<DownPoint(p)>>
                            ELSE currentPoints
        /\ lastEvent' = Event("handleMouseDown", b)
        /\ sessionTool' = FollowedTool(b = "startDrawing", isDrawing')
        /\ resizeStart' =
              IF b = "doorHandle"
              THEN [active |-> TRUE, point |-> p, width |-> Sel(doors, selectedDoorId).width]
              ELSE IF b = "selDoor" THEN NoDrag
              ELSE resizeStart
        /\ rotateDrags' =
              IF b \in {"shapeHandle", "drivewayHandle"} /\ dragState'.handle.name = "rotate"
              THEN IF rotateDrags.id = dragState'.shapeId /\ rotateDrags.count < QuarterTurns
                   THEN [rotateDrags EXCEPT !.angle = 0]
                   ELSE [id |-> dragState'.shapeId,
                         base |-> IF b = "shapeHandle"
                                  THEN Sel(shapes, dragState'.shapeId).rotation
                                  ELSE Sel(driveways, dragState'.shapeId).rotation,
                         count |-> 0, angle |-> 0]
              ELSE NoTurns
        /\ UNCHANGED <<activeTool, snapEnabled, currentStep, drivewayDrawingMode,
                       pathwayDrawingMode, patioDrawingMode, spacePressed>>

\* ------------------------------------------------- the transform of a drag
\* a / b rounded, for b of either sign
DivRound(a, b) == IF b > 0 THEN RoundDiv(a, b) ELSE RoundDiv(0 - a, 0 - b)

\* one coordinate scaled about anchor so that oldEdge lands on newEdge
ScaleAxis(v, anchor, oldEdge, newEdge) ==
    IF oldEdge = anchor THEN v
    ELSE anchor + DivRound((v - anchor) * (newEdge - anchor), oldEdge - anchor)

\* an angle brought into (-180, 180]
NormDelta(d) ==
    LET m == ((d % 360) + 360) % 360
    IN  IF m > 180 THEN m - 360 ELSE m

\* improvedTransformVertices with shift and alt up: translation for the center
\* handle, scaling about the opposite corner or edge for the box handles, and
\* for the rotate handle the angle at the box centre from the drag's start to
\* the pointer, returned as rotationDelta with the vertices as they were.
improvedTransformVertices(originalVertices, handle, startPoint, currentPoint) ==
    LET minX == SeqMin(Xs(originalVertices))
        maxX == SeqMax(Xs(originalVertices))
        minY == SeqMin(Ys(originalVertices))
        maxY == SeqMax(Ys(originalVertices))
        dx == currentPoint.x - startPoint.x
        dy == currentPoint.y - startPoint.y
        anchor == Pt((minX + maxX) \div 2, (minY + maxY) \div 2)
        NewX(x) == IF handle \in {"ne", "e", "se"} THEN ScaleAxis(x, minX, maxX, maxX + dx)
                   ELSE IF handle \in {"nw", "w", "sw"} THEN ScaleAxis(x, maxX, minX, minX + dx)
                   ELSE x
        NewY(y) == IF handle \in {"sw", "s", "se"} THEN ScaleAxis(y, minY, maxY, maxY + dy)
                   ELSE IF handle \in {"nw", "n", "ne"} THEN ScaleAxis(y, maxY, minY, minY + dy)
                   ELSE y
    IN  IF handle = "rotate"
        THEN [vertices |-> originalVertices, hasRotation |-> TRUE,
              rotationDelta |->
                  NormDelta(Atan2Deg(currentPoint.y - anchor.y, currentPoint.x - anchor.x)
                            - Atan2Deg(startPoint.y - anchor.y, startPoint.x - anchor.x))]
        ELSE IF handle = "center"
        THEN [vertices |-> [i \in 1..Len(originalVertices) |->
                               Pt(originalVertices[i].x + dx, originalVertices[i].y + dy)],
              hasRotation |-> FALSE, rotationDelta |-> 0]
        ELSE [vertices |-> [i \in 1..Len(originalVertices) |->
                               Pt(NewX(originalVertices[i].x), NewY(originalVertices[i].y))],
              hasRotation |-> FALSE, rotationDelta |-> 0]

transformVertices(originalVertices, handle, startPoint, currentPoint) ==
    improvedTransformVertices(originalVertices, handle, startPoint, currentPoint)

\* --------------------------------------------------------- handleMouseMove
\* the width a start or end handle drag gives the door on one move to p
ResizedWidth(door, wallShape, handle, startPoint, p) ==
    LET v1 == SegStart(wallShape, door.wallSegmentIndex)
        v2 == SegEnd(wallShape, door.wallSegmentIndex)
        wallDx == v2.x - v1.x
        wallDy == v2.y - v1.y
        wallLength == Sqrt(wallDx * wallDx + wallDy * wallDy)
        dot == (p.x - startPoint.x) * wallDx + (p.y - startPoint.y) * wallDy
        \* projectedDist * sensitivityFactor, sensitivityFactor = 0.5
        adjustedDist == RoundDiv(dot, 2 * wallLength)
    IN  IF wallLength = 0 \/ door.width = NaN THEN NaN
        ELSE IF handle = "end"
        THEN Max2(MIN_DOOR_WIDTH_FT * Unit, Min2(wallLength, door.width + adjustedDist))
        ELSE Max2(MIN_DOOR_WIDTH_FT * Unit, Min2(wallLength, door.width - adjustedDist))

\* the door a center drag leaves on one move to p
Rebound(door, p) ==
    LET wallResult == findWallSegmentAtPoint(shapes, p, DRAG_THRESHOLD_FT)
    IN  IF wallResult.found
        THEN [door EXCEPT !.position = wallResult.closestPoint,
                          !.wallShapeId = wallResult.shapeId,
                          !.wallSegmentIndex = wallResult.segmentIndex,
                          !.rotation = wallResult.rotation]
        ELSE door

MouseMoveBranch ==
    IF isPanning THEN "pan"
    ELSE IF doorDragState.active
    THEN IF /\ Has(doors, doorDragState.doorId)
            /\ Has(shapes, Sel(doors, doorDragState.doorId).wallShapeId)
         THEN IF doorDragState.handle = "center" THEN "doorCenter" ELSE "doorResize"
         ELSE "doorNone"
    ELSE IF dragState.active
    THEN IF Has(patios, dragState.shapeId)
         THEN IF dragState.handle.kind = "vertex" THEN "patioVertex"
              ELSE IF dragState.handle.kind = "edge" THEN "patioEdge"
              ELSE "dragNone"
         ELSE IF Has(driveways, dragState.shapeId) THEN "driveway"
         ELSE IF Has(shapes, dragState.shapeId) THEN "shape"
         ELSE "dragNone"
    ELSE IF isDrawing
    THEN IF activeTool = "freehand" THEN "freehand"
         ELSE IF activeTool = "polygon" THEN "preview"
         ELSE "rubber"
    ELSE "hover"

\* the point a drawing pointer-move records; pathway freehand never snaps
MovePoint(p) ==
    IF snapEnabled /\ ~(pathwayDrawingMode /\ activeTool = "freehand") THEN snapToGrid(p)
    ELSE p

\* the entity a box-handle drag leaves on one move to p
Transformed(e, p) ==
    LET result == transformVertices(dragState.originalVertices, dragState.handle.name,
                                    dragState.startPoint, p)
    IN  IF result.hasRotation
        THEN [e EXCEPT !.vertices = result.vertices,
                       !.rotation = e.rotation + result.rotationDelta]
        ELSE [e EXCEPT !.vertices = result.vertices]

PatioVertexMoved(patio, p) ==
    [patio EXCEPT !.vertices[dragState.handle.index + 1] = p]

PatioEdgeMoved(patio, p) ==
    LET edgeIndex == dragState.handle.index + 1
        nextIndex == ((dragState.handle.index + 1) % Len(patio.vertices)) + 1
        dx == p.x - dragState.startPoint.x
        dy == p.y - dragState.startPoint.y
        orig == dragState.originalVertices
        moved == [patio.vertices EXCEPT
                     ![edgeIndex] = Pt(orig[edgeIndex].x + dx, orig[edgeIndex].y + dy)]
    IN  [patio EXCEPT !.vertices =
            [moved EXCEPT ![nextIndex] = Pt(orig[nextIndex].x + dx, orig[nextIndex].y + dy)]]

handleMouseMove(p) ==
    \E b \in {MouseMoveBranch} :
        /\ doors' =
              IF b = "doorCenter"
              THEN MapId(doors, doorDragState.doorId, LAMBDA d : Rebound(d, p))
              ELSE IF b = "doorResize"
              THEN MapId(doors, doorDragState.doorId,
                         LAMBDA d : [d EXCEPT !.width =
                             ResizedWidth(d, Sel(shapes, d.wallShapeId), doorDragState.handle,
                                          doorDragState.startPoint, p)])
              ELSE doors
        /\ doorDragState' = IF b = "doorResize" THEN [doorDragState EXCEPT !.startPoint = p]
                            ELSE doorDragState
        /\ patios' = IF b = "patioVertex"
                     THEN MapId(patios, dragState.shapeId, LAMBDA e : PatioVertexMoved(e, p))
                     ELSE IF b = "patioEdge"
                     THEN MapId(patios, dragState.shapeId, LAMBDA e : PatioEdgeMoved(e, p))
                     ELSE patios
        /\ driveways' = IF b = "driveway"
                        THEN MapId(driveways, dragState.shapeId, LAMBDA e : Transformed(e, p))
                        ELSE driveways
        /\ shapes' = IF b = "shape"
                     THEN MapId(shapes, dragState.shapeId, LAMBDA e : Transformed(e, p))
                     ELSE shapes
        /\ currentPoints' = IF b = "freehand" THEN Append(currentPoints, MovePoint(p))
                            ELSE IF b = "rubber" THEN <<currentPoints[1], MovePoint(p)>>
                            ELSE currentPoints
        /\ lastEvent' = Event("handleMouseMove", b)
        /\ UNCHANGED <<sessionTool, resizeStart>>
        /\ rotateDrags' =
              IF /\ b \in {"shape", "driveway"}
                 /\ dragState.handle.name = "rotate"
                 /\ rotateDrags.id = dragState.shapeId
              THEN [rotateDrags EXCEPT !.angle =
                       transformVertices(dragState.originalVertices, "rotate",
                                         dragState.startPoint, p).rotationDelta]
              ELSE rotateDrags
        /\ UNCHANGED <<pathways, selection, modes, activeTool, snapEnabled, currentStep,
                       isDrawing, dragState, isPanning, spacePressed, toast, nextId>>

\* ----------------------------------------------------------- handleMouseUp
MouseUpBranch ==
    IF isPanning THEN "pan"
    ELSE IF doorDragState.active THEN "doorDrag"
    ELSE IF dragState.active THEN "drag"
    ELSE IF isDrawing /\ activeTool = "polygon" THEN "polygon"
    ELSE IF isDrawing /\ Len(currentPoints) >= 2
    THEN IF pathwayDrawingMode /\ activeTool = "freehand" THEN "pathway"
         ELSE IF drivewayDrawingMode /\ activeTool = "rectangle" THEN "driveway"
         ELSE IF patioDrawingMode /\ activeTool = "rectangle" THEN "patio"
         ELSE "shape"
    ELSE "reset"

\* the type handleMouseUp gives a shape drawn with the active tool
ToolShapeType ==
    IF activeTool = "rectangle" THEN "rectangle"
    ELSE IF activeTool = "freehand" THEN "freehand"
    ELSE IF activeTool = "polygon" THEN "polygon"
    ELSE "line"

\* a pointer-up that resets the session only after creating an entity
EndsSessionOnCreate(b) == b \in {"pathway", "driveway", "patio", "shape"}

\* the branches that fall through to the session reset at the end
EndsSession(b) == b \in {"pathway", "driveway", "patio", "shape", "reset"}

handleMouseUp ==
    \E b \in {MouseUpBranch} :
    LET creates == b \in {"pathway", "driveway", "patio", "shape"}
        ends == EndsSession(b)
    IN  /\ isPanning' = IF b = "pan" THEN FALSE ELSE isPanning
        /\ doorDragState' = IF b = "doorDrag" THEN NoDrag ELSE doorDragState
        /\ dragState' = IF b = "drag" THEN NoDrag ELSE dragState
        /\ pathways' =
              IF b = "pathway"
              THEN Append(pathways, [id |-> nextId, width |-> PATHWAY_WIDTH_FT * Unit,
                                     vertices |-> smoothPathway(currentPoints, (3 * Unit) \div 10),
                                     rotation |-> 0])
              ELSE pathways
        /\ selectedPathwayId' = IF b = "pathway" THEN nextId ELSE selectedPathwayId
        /\ driveways' =
              IF b = "driveway"
              THEN Append(driveways,
                          [id |-> nextId, widthType |-> "single",
                           vertices |-> constrainRectangleWidth(
                                            createRectangleVertices(currentPoints),
                                            DRIVEWAY_SINGLE_FT * Unit),
                           rotation |-> 0])
              ELSE driveways
        /\ selectedDrivewayId' = IF b = "driveway" THEN nextId ELSE selectedDrivewayId
        /\ patios' =
              IF b = "patio"
              THEN Append(patios,
                          [id |-> nextId, widthType |-> "small",
                           vertices |-> constrainRectangleWidth(
                                            createRectangleVertices(currentPoints),
                                            PATIO_SMALL_FT * Unit),
                           rotation |-> 0])
              ELSE patios
        /\ selectedPatioId' = IF b = "patio" THEN nextId ELSE selectedPatioId
        /\ shapes' =
              IF b = "shape"
              THEN Append(shapes,
                          NewShape(ToolShapeType,
                                   IF activeTool = "rectangle"
                                   THEN createRectangleVertices(currentPoints)
                                   ELSE currentPoints))
              ELSE shapes
        /\ selectedShapeId' = IF b = "shape" THEN nextId ELSE selectedShapeId
        /\ toast' = IF b = "pathway" THEN "Pathway Added"
                    ELSE IF b = "driveway" THEN "Driveway Added"
                    ELSE IF b = "patio" THEN "Patio Added"
                    ELSE toast
        /\ nextId' = IF creates THEN nextId + 1 ELSE nextId
        /\ isDrawing' = IF ends THEN FALSE ELSE isDrawing
        /\ currentPoints' = IF ends THEN <<>> ELSE currentPoints
        /\ lastEvent' = Event("handleMouseUp", b)
        /\ sessionTool' = FollowedTool(FALSE, isDrawing')
        /\ resizeStart' = IF b = "doorDrag" THEN NoDrag ELSE resizeStart
        /\ rotateDrags' =
              IF /\ b = "drag"
                 /\ dragState.handle.kind = "box"
                 /\ dragState.handle.name = "rotate"
                 /\ rotateDrags.id = dragState.shapeId
              THEN IF rotateDrags.angle = 90
                   THEN [rotateDrags EXCEPT !.count = rotateDrags.count + 1, !.angle = 0]
                   ELSE NoTurns
              ELSE rotateDrags
        /\ UNCHANGED <<doors, selectedDoorId, modes, activeTool, snapEnabled, currentStep,
                       spacePressed>>

\* ------------------------------------------------------- handleDoubleClick
\* a finish that accepts a polygon session of a single point
FinishesPolygonAtOne == isDrawing /\ activeTool = "polygon" /\ Len(currentPoints) >= 1

\* the polygon both handleDoubleClick and Enter append
FinishesPolygon == isDrawing /\ activeTool = "polygon" /\ Len(currentPoints) >= 2

handleDoubleClick ==
    /\ shapes' = IF FinishesPolygon THEN Append(shapes, NewShape("polygon", currentPoints))
                 ELSE shapes
    /\ selectedShapeId' = IF FinishesPolygon THEN nextId ELSE selectedShapeId
    /\ nextId' = IF FinishesPolygon THEN nextId + 1 ELSE nextId
    /\ isDrawing' = IF FinishesPolygon THEN FALSE ELSE isDrawing
    /\ currentPoints' = IF FinishesPolygon THEN <<>> ELSE currentPoints
    /\ lastEvent' = Event("handleDoubleClick", IF FinishesPolygon THEN "finish" ELSE "none")
    /\ sessionTool' = FollowedTool(FALSE, isDrawing')
    /\ UNCHANGED resizeStart
    /\ rotateDrags' = NoTurns
    /\ UNCHANGED <<doors, driveways, pathways, patios, selectedDoorId, selectedDrivewayId,
                   selectedPathwayId, selectedPatioId, modes, activeTool, snapEnabled,
                   currentStep, dragState, doorDragState, isPanning, spacePressed, toast>>

\* ------------------------------------------- keydown: canvas and page both
\* Both components listen on window, so one key press runs the canvas's
\* handleKeyDown and the page's handleKeyDown on the same rendered state.
IsDeleteKey(key) == key = "Delete" \/ key = "Backspace"

\* what the canvas's Delete/Backspace branch deletes
CanvasDeletes(key) ==
    IF ~(IsDeleteKey(key) /\ ~isDrawing) THEN "none"
    ELSE IF selectedPatioId # NULL THEN "patio"
    ELSE IF selectedPathwayId # NULL THEN "pathway"
    ELSE IF selectedDrivewayId # NULL THEN "driveway"
    ELSE IF selectedShapeId # NULL THEN "shape"
    ELSE "none"

\* what the page's Delete/Backspace branch deletes
PageDeletes(key) ==
    IF ~IsDeleteKey(key) THEN "none"
    ELSE IF selectedShapeId # NULL THEN "shape"
    ELSE IF selectedDoorId # NULL THEN "door"
    ELSE "none"

\* the canvas returns from its Delete branch before reaching the others
CanvasReturned(key) == CanvasDeletes(key) # "none"

ToolOfKey(key) ==
    IF key = "1" THEN "select"
    ELSE IF key = "2" THEN "line"
    ELSE IF key = "3" THEN "rectangle"
    ELSE IF key = "4" THEN "polygon"
    ELSE IF key = "5" THEN "freehand"
    ELSE IF key = "6" THEN "delete"
    ELSE IF key = "Space" THEN (IF activeTool = "pan" THEN "select" ELSE "pan")
    ELSE activeTool

\* a canvas whose Escape branch never cancels a session
CancelsNever(key) == FALSE

\* Escape while drawing: the session is cancelled
Cancels(key) == key = "Escape" /\ isDrawing /\ ~CanvasReturned(key)

\* Escape while idle: shape, driveway, patio and pathway are deselected
Deselects(key) == key = "Escape" /\ ~isDrawing /\ ~CanvasReturned(key)

\* Backspace in a polygon session of more than one point: the last point goes
UndoesVertex(key) ==
    /\ key = "Backspace" /\ ~CanvasReturned(key)
    /\ isDrawing /\ activeTool = "polygon" /\ Len(currentPoints) > 1

\* Enter in a polygon session of at least two points: the polygon is created
Finishes(key) == key = "Enter" /\ FinishesPolygon

handleKeyDown(key) ==
    LET cancels == Cancels(key)
        deselects == Deselects(key)
        undoes == UndoesVertex(key)
        finishes == Finishes(key)
    IN  /\ spacePressed' = IF key = "Space" /\ ~isDrawing THEN TRUE ELSE spacePressed
        /\ activeTool' = ToolOfKey(key)
        /\ snapEnabled' = IF key = "s" THEN ~snapEnabled ELSE snapEnabled
        /\ doorPlacementMode' = IF key = "Escape" /\ doorPlacementMode.active THEN PlacementOff
                                ELSE doorPlacementMode
        /\ toast' = IF key = "Escape" /\ doorPlacementMode.active THEN "Cancelled" ELSE toast
        /\ patios' = IF CanvasDeletes(key) = "patio" THEN FilterOut(patios, selectedPatioId)
                     ELSE patios
        /\ pathways' = IF CanvasDeletes(key) = "pathway"
                       THEN FilterOut(pathways, selectedPathwayId)
                       ELSE pathways
        /\ driveways' = IF CanvasDeletes(key) = "driveway"
                        THEN FilterOut(driveways, selectedDrivewayId)
                        ELSE driveways
        /\ shapes' = IF CanvasDeletes(key) = "shape" \/ PageDeletes(key) = "shape"
                     THEN FilterOut(shapes, selectedShapeId)
                     ELSE IF finishes THEN Append(shapes, NewShape("polygon", currentPoints))
                     ELSE shapes
        /\ doors' = IF PageDeletes(key) = "door" THEN FilterOut(doors, selectedDoorId)
                    ELSE doors
        /\ selectedPatioId' = IF CanvasDeletes(key) = "patio" \/ deselects THEN NULL
                              ELSE selectedPatioId
        /\ selectedPathwayId' = IF CanvasDeletes(key) = "pathway" \/ deselects THEN NULL
                                ELSE selectedPathwayId
        /\ selectedDrivewayId' = IF CanvasDeletes(key) = "driveway" \/ deselects THEN NULL
                                 ELSE selectedDrivewayId
        /\ selectedShapeId' =
              IF CanvasDeletes(key) = "shape" \/ PageDeletes(key) = "shape" \/ deselects
              THEN NULL
              ELSE IF finishes THEN nextId
              ELSE selectedShapeId
        /\ selectedDoorId' = IF PageDeletes(key) = "door" THEN NULL ELSE selectedDoorId
        /\ nextId' = IF finishes THEN nextId + 1 ELSE nextId
        /\ isDrawing' = IF cancels \/ finishes THEN FALSE ELSE isDrawing
        /\ currentPoints' = IF cancels \/ finishes THEN <<>>
                            ELSE IF undoes THEN SubSeq(currentPoints, 1, Len(currentPoints) - 1)
                            ELSE currentPoints
        /\ lastEvent' = Event("handleKeyDown",
                               IF cancels THEN "cancel"
                               ELSE IF undoes THEN "undoVertex"
                               ELSE IF finishes THEN "finish"
                               ELSE key)
        /\ sessionTool' = FollowedTool(FALSE, isDrawing')
        /\ UNCHANGED resizeStart
        /\ rotateDrags' = NoTurns
        /\ UNCHANGED <<currentStep, drivewayDrawingMode, pathwayDrawingMode, patioDrawingMode,
                       dragState, doorDragState, isPanning>>

\* keyup of the space bar
handleKeyUp ==
    /\ spacePressed' = FALSE
    /\ isPanning' = FALSE
    /\ lastEvent' = Event("handleKeyUp", "Space")
    /\ UNCHANGED <<sessionTool, resizeStart>>
    /\ rotateDrags' = NoTurns
    /\ UNCHANGED <<pageVars, session, dragState, doorDragState, toast, nextId>>

\* ----------------------------------------------------- the page's commands
\* onStepClick={setCurrentStep}
onStepClick(step) ==
    /\ currentStep' = step
    /\ lastEvent' = Event("onStepClick", step)
    /\ UNCHANGED <<sessionTool, resizeStart>>
    /\ rotateDrags' = NoTurns
    /\ UNCHANGED <<collections, selection, modes, activeTool, snapEnabled, canvasVars,
                   toast, nextId>>

\* onToolChange={setActiveTool}, the toolbar's buttons
onToolChange(tool) ==
    /\ activeTool' = tool
    /\ lastEvent' = Event("onToolChange", tool)
    /\ UNCHANGED <<sessionTool, resizeStart>>
    /\ rotateDrags' = NoTurns
    /\ UNCHANGED <<collections, selection, modes, snapEnabled, currentStep, canvasVars,
                   toast, nextId>>

\* Each panel is rendered, and its button can be clicked, on its own step only.
handleAddDoor ==
    /\ currentStep = "add-doors"
    /\ doorPlacementMode' = [active |-> TRUE, doorType |-> "single",
                             width |-> DOOR_WIDTH_FT * Unit]
    /\ activeTool' = "select"
    /\ toast' = "Door Placement Mode"
    /\ lastEvent' = Event("handleAddDoor", "")
    /\ UNCHANGED <<sessionTool, resizeStart>>
    /\ rotateDrags' = NoTurns
    /\ UNCHANGED <<collections, selection, drivewayDrawingMode, pathwayDrawingMode,
                   patioDrawingMode, snapEnabled, currentStep, canvasVars, nextId>>

handleStartDrivewayDrawing ==
    /\ currentStep = "add-driveways"
    /\ drivewayDrawingMode' = TRUE
    /\ activeTool' = "rectangle"
    /\ toast' = "Driveway Drawing Mode"
    /\ lastEvent' = Event("handleStartDrivewayDrawing", "")
    /\ UNCHANGED <<sessionTool, resizeStart>>
    /\ rotateDrags' = NoTurns
    /\ UNCHANGED <<collections, selection, doorPlacementMode, pathwayDrawingMode,
                   patioDrawingMode, snapEnabled, currentStep, canvasVars, nextId>>

handleStartPathwayDrawing ==
    /\ currentStep = "add-pathways"
    /\ pathwayDrawingMode' = TRUE
    /\ activeTool' = "freehand"
    /\ toast' = "Pathway Drawing Mode"
    /\ lastEvent' = Event("handleStartPathwayDrawing", "")
    /\ UNCHANGED <<sessionTool, resizeStart>>
    /\ rotateDrags' = NoTurns
    /\ UNCHANGED <<collections, selection, doorPlacementMode, drivewayDrawingMode,
                   patioDrawingMode, snapEnabled, currentStep, canvasVars, nextId>>

handleStartPatioDrawing ==
    /\ currentStep = "add-patios"
    /\ patioDrawingMode' = TRUE
    /\ activeTool' = "rectangle"
    /\ toast' = "Patio Drawing Mode"
    /\ lastEvent' = Event("handleStartPatioDrawing", "")
    /\ UNCHANGED <<sessionTool, resizeStart>>
    /\ rotateDrags' = NoTurns
    /\ UNCHANGED <<collections, selection, doorPlacementMode, drivewayDrawingMode,
                   pathwayDrawingMode, snapEnabled, currentStep, canvasVars, nextId>>

\* ------------------------------------------------------------ the bounds
\* The editor has no limit on entities, session length, turns or coordinates;
\* a step is explored only while it stays inside these.
AllVertices(s) == UNION {{s[i].vertices[j] : j \in 1..Len(s[i].vertices)} : i \in 1..Len(s)}

BoundedStroke(maxId, maxTurn, maxPoints) ==
    /\ nextId' <= maxId + 1
    /\ Len(currentPoints') <= maxPoints
    /\ \A i \in 1..Len(shapes') : Abs(shapes'[i].rotation) <= maxTurn
    /\ \A i \in 1..Len(driveways') : Abs(driveways'[i].rotation) <= maxTurn
    /\ \A v \in AllVertices(shapes') \cup AllVertices(driveways') \cup AllVertices(patios') :
          Abs(v.x) <= MaxCoord /\ Abs(v.y) <= MaxCoord

BoundedTurning(maxId, maxTurn) == BoundedStroke(maxId, maxTurn, MaxPoints)

Bounded(maxId) == BoundedTurning(maxId, MaxTurn)

\* ------------------------------------------------- the drawing session
\* Sessions of every drawing tool on the plot step, the pan tool between them.
SessionPoints == {Pt(0, 0), Pt(100, 100)}
SessionKeys == {"Escape", "Backspace", "Enter"}
SessionTools == {"line", "rectangle", "polygon", "freehand", "pan"}

NextSession ==
    \/ \E p \in SessionPoints : handleMouseDown(p) /\ Bounded(MaxSessionId)
    \/ \E p \in SessionPoints : handleMouseMove(p) /\ Bounded(MaxSessionId)
    \/ handleMouseUp /\ Bounded(MaxSessionId)
    \/ handleDoubleClick /\ Bounded(MaxSessionId)
    \/ \E key \in SessionKeys : handleKeyDown(key) /\ Bounded(MaxSessionId)
    \/ \E tool \in SessionTools : onToolChange(tool)

SpecSession == Init /\ [][NextSession]_vars

\* Strokes of the line, rectangle and freehand tools, as shapes and as pathways,
\* the pan tool between them.
StrokePoints == {Pt(0, 0), Pt(100, 100)}
StrokeTools == {"line", "rectangle", "freehand", "pan"}
StrokeSteps == {"add-pathways"}

NextStroke ==
    \/ \E p \in StrokePoints : handleMouseDown(p) /\ Bounded(MaxSessionId)
    \/ \E p \in StrokePoints : handleMouseMove(p) /\ Bounded(MaxSessionId)
    \/ handleMouseUp /\ Bounded(MaxSessionId)
    \/ \E tool \in StrokeTools : onToolChange(tool)
    \/ \E step \in StrokeSteps : onStepClick(step)
    \/ handleStartPathwayDrawing

SpecStroke == Init /\ [][NextStroke]_vars

\* Polygon sessions with door placement switched on in the middle of them.
PolygonPoints == {Pt(0, 0), Pt(100, 100)}
PolygonKeys == {"Enter", "4"}

NextPolygon ==
    \/ \E p \in PolygonPoints : handleMouseDown(p) /\ Bounded(MaxSessionId)
    \/ \E p \in PolygonPoints : handleMouseMove(p) /\ Bounded(MaxSessionId)
    \/ handleMouseUp /\ Bounded(MaxSessionId)
    \/ handleDoubleClick /\ Bounded(MaxSessionId)
    \/ \E key \in PolygonKeys : handleKeyDown(key) /\ Bounded(MaxSessionId)
    \/ onStepClick("add-doors")
    \/ handleAddDoor

SpecPolygon == Init /\ [][NextPolygon]_vars

\* The editor after the wall (0,0)-(20,0) ft was drawn with the line tool on
\* the walls step, the add-doors step opened and the select tool picked.
TheWall ==
    [id |-> 1, type |-> "line", vertices |-> <<Pt(0, 0), Pt(20 * Unit, 0)>>,
     layer |-> "wall", rotation |-> 0]

InitWalled ==
    /\ shapes = <<TheWall>> /\ doors = <<>> /\ driveways = <<>> /\ pathways = <<>>
    /\ patios = <<>>
    /\ selectedShapeId = 1 /\ selectedDoorId = NULL /\ selectedDrivewayId = NULL
    /\ selectedPathwayId = NULL /\ selectedPatioId = NULL
    /\ activeTool = "select" /\ snapEnabled = TRUE /\ currentStep = "add-doors"
    /\ doorPlacementMode = PlacementOff
    /\ drivewayDrawingMode = FALSE /\ pathwayDrawingMode = FALSE /\ patioDrawingMode = FALSE
    /\ isDrawing = FALSE /\ currentPoints = <<>>
    /\ dragState = NoDrag /\ doorDragState = NoDrag
    /\ isPanning = FALSE /\ spacePressed = FALSE
    /\ toast = ""
    /\ nextId = 2
    /\ lastEvent = Event("onToolChange", "select")
    /\ rotateDrags = NoTurns
    /\ sessionTool = Unfollowed
    /\ resizeStart = NoDrag

\* Door placement on that wall, the pan tool in reach: the click at
\* (10, 0.3) ft is among the pointer positions, and so are one exactly 1 ft
\* and one 5 ft off the wall.
PlacePoints ==
    {Pt(20 * Unit, 0), Pt(10 * Unit, (3 * Unit) \div 10), Pt(10 * Unit, Unit),
     Pt(10 * Unit, 5 * Unit)}
PlaceTools == {"select", "pan"}

NextPlace ==
    \/ \E p \in PlacePoints : handleMouseDown(p) /\ Bounded(MaxPlaceId)
    \/ \E p \in PlacePoints : handleMouseMove(p) /\ Bounded(MaxPlaceId)
    \/ handleMouseUp /\ Bounded(MaxPlaceId)
    \/ \E tool \in PlaceTools : onToolChange(tool)
    \/ handleAddDoor

SpecPlace == InitWalled /\ [][NextPlace]_vars

\* A door placed at the middle of that wall and dragged by its end handle:
\* the pointer on the door, on the handle 1.5 ft along the wall, and 4 ft
\* inwards and 1 ft outwards of the handle. The pointer goes down on the door
\* and on the handle only, and moves only while a width handle is held.
ReturnPresses == {Pt(10 * Unit, 0), Pt(11 * Unit + Unit \div 2, 0)}
ReturnPoints ==
    {Pt(10 * Unit, 0), Pt(11 * Unit + Unit \div 2, 0), Pt(7 * Unit + Unit \div 2, 0),
     Pt(12 * Unit + Unit \div 2, 0)}

NextReturn ==
    \/ \E p \in ReturnPresses : handleMouseDown(p) /\ Bounded(MaxPlaceId)
    \/ \E p \in ReturnPoints :
          /\ doorDragState.active /\ doorDragState.handle # "center"
          /\ handleMouseMove(p) /\ Bounded(MaxPlaceId)
    \/ handleMouseUp /\ Bounded(MaxPlaceId)
    \/ handleAddDoor

SpecReturn == InitWalled /\ [][NextReturn]_vars

\* The same editor with a second wall (0,10)-(20,10) ft drawn after the first;
\* the wall drawn last is the selected one.
TheOtherWall ==
    [id |-> 2, type |-> "line", vertices |-> <<Pt(0, 10 * Unit), Pt(20 * Unit, 10 * Unit)>>,
     layer |-> "wall", rotation |-> 0]

InitTwoWalls ==
    /\ shapes = <<TheWall, TheOtherWall>> /\ doors = <<>> /\ driveways = <<>>
    /\ pathways = <<>> /\ patios = <<>>
    /\ selectedShapeId = 2 /\ selectedDoorId = NULL /\ selectedDrivewayId = NULL
    /\ selectedPathwayId = NULL /\ selectedPatioId = NULL
    /\ activeTool = "select" /\ snapEnabled = TRUE /\ currentStep = "add-doors"
    /\ doorPlacementMode = PlacementOff
    /\ drivewayDrawingMode = FALSE /\ pathwayDrawingMode = FALSE /\ patioDrawingMode = FALSE
    /\ isDrawing = FALSE /\ currentPoints = <<>>
    /\ dragState = NoDrag /\ doorDragState = NoDrag
    /\ isPanning = FALSE /\ spacePressed = FALSE
    /\ toast = ""
    /\ nextId = 3
    /\ lastEvent = Event("onToolChange", "select")
    /\ rotateDrags = NoTurns
    /\ sessionTool = Unfollowed
    /\ resizeStart = NoDrag

\* A door on the first wall, the delete tool, and center drags of the door
\* towards the second wall.
DoorPoints == {Pt(10 * Unit, (3 * Unit) \div 10), Pt(15 * Unit, 0), Pt(10 * Unit, 10 * Unit)}
DoorTools == {"select", "delete"}

NextDoor ==
    \/ \E p \in DoorPoints : handleMouseDown(p) /\ Bounded(MaxDoorId)
    \/ \E p \in DoorPoints : handleMouseMove(p) /\ Bounded(MaxDoorId)
    \/ handleMouseUp /\ Bounded(MaxDoorId)
    \/ \E tool \in DoorTools : onToolChange(tool)
    \/ handleAddDoor

SpecDoor == InitTwoWalls /\ [][NextDoor]_vars

\* The editor after a wall (0,0)-(1,0) ft was drawn with snapping switched
\* off, deselected by a click on empty canvas, and Add Door pressed.
ShortWall ==
    [id |-> 1, type |-> "line", vertices |-> <<Pt(0, 0), Pt(Unit, 0)>>,
     layer |-> "wall", rotation |-> 0]

InitShortWall ==
    /\ shapes = <<ShortWall>> /\ doors = <<>> /\ driveways = <<>> /\ pathways = <<>>
    /\ patios = <<>>
    /\ selectedShapeId = NULL /\ selectedDoorId = NULL /\ selectedDrivewayId = NULL
    /\ selectedPathwayId = NULL /\ selectedPatioId = NULL
    /\ activeTool = "select" /\ snapEnabled = FALSE /\ currentStep = "add-doors"
    /\ doorPlacementMode = [active |-> TRUE, doorType |-> "single",
                            width |-> DOOR_WIDTH_FT * Unit]
    /\ drivewayDrawingMode = FALSE /\ pathwayDrawingMode = FALSE /\ patioDrawingMode = FALSE
    /\ isDrawing = FALSE /\ currentPoints = <<>>
    /\ dragState = NoDrag /\ doorDragState = NoDrag
    /\ isPanning = FALSE /\ spacePressed = FALSE
    /\ toast = "Door Placement Mode"
    /\ nextId = 2
    /\ lastEvent = Event("handleAddDoor", "")
    /\ rotateDrags = NoTurns
    /\ sessionTool = Unfollowed
    /\ resizeStart = NoDrag

\* A door placed on the short wall and dragged by its center and width handles.
ResizePoints ==
    {Pt(Unit \div 2, 0), Pt(2 * Unit, 0), Pt(5 * Unit, 0), Pt(0 - Unit, 0)}

NextResize ==
    \/ \E p \in ResizePoints : handleMouseDown(p) /\ Bounded(MaxResizeId)
    \/ \E p \in ResizePoints : handleMouseMove(p) /\ Bounded(MaxResizeId)
    \/ handleMouseUp /\ Bounded(MaxResizeId)

SpecResize == InitShortWall /\ [][NextResize]_vars

\* The selected wall turned by its rotate handle: the pointer pressed on the
\* handle and moved a quarter turn about the box centre, directly or by way
\* of an eighth of a turn.
QuarterPoints ==
    {Pt(10 * Unit, 0 - PxToUnits(30)), Pt(12 * Unit + Unit \div 2, 0 - (2 * Unit + Unit \div 2)),
     Pt(15 * Unit, 0)}

NextQuarter ==
    \/ \E p \in QuarterPoints :
          handleMouseDown(p) /\ BoundedTurning(MaxTransformId, MaxQuarterTurn)
    \/ \E p \in QuarterPoints :
          handleMouseMove(p) /\ BoundedTurning(MaxTransformId, MaxQuarterTurn)
    \/ handleMouseUp /\ BoundedTurning(MaxTransformId, MaxQuarterTurn)

SpecQuarter == InitWalled /\ [][NextQuarter]_vars

\* The selected wall turned by its rotate handle, 30 px above the box.
TransformPoints ==
    {Pt(10 * Unit, 0 - PxToUnits(30)), Pt(15 * Unit, 0 - 5 * Unit), Pt(5 * Unit, 0 - 5 * Unit),
     Pt(10 * Unit, (3 * Unit) \div 10)}

NextTransform ==
    \/ \E p \in TransformPoints : handleMouseDown(p) /\ Bounded(MaxTransformId)
    \/ \E p \in TransformPoints : handleMouseMove(p) /\ Bounded(MaxTransformId)
    \/ handleMouseUp /\ Bounded(MaxTransformId)

SpecTransform == InitWalled /\ [][NextTransform]_vars

\* Strokes during which a tool key is pressed: freehand (5) and rectangle (3).
SwitchPoints == {Pt(0, 0), Pt(5 * Unit, 5 * Unit)}
SwitchKeys == {"3", "5"}

NextSwitch ==
    \/ \E p \in SwitchPoints : handleMouseDown(p) /\ Bounded(MaxSessionId)
    \/ \E p \in SwitchPoints : handleMouseMove(p) /\ Bounded(MaxSessionId)
    \/ handleMouseUp /\ Bounded(MaxSessionId)
    \/ \E key \in SwitchKeys : handleKeyDown(key)

SpecSwitch == InitFollowed /\ [][NextSwitch]_vars

\* Pathway capture with the pointer a quarter of a foot from a grid point.
PathPoints == {Pt(0, 0), Pt(Unit \div 4, 0), Pt(5 * Unit, Unit)}

NextPath ==
    \/ \E p \in PathPoints : handleMouseDown(p) /\ Bounded(MaxSessionId)
    \/ \E p \in PathPoints : handleMouseMove(p) /\ Bounded(MaxSessionId)
    \/ handleMouseUp /\ Bounded(MaxSessionId)
    \/ onStepClick("add-pathways")
    \/ handleStartPathwayDrawing

SpecPath == Init /\ [][NextPath]_vars

\* Two doors placed at the same spot of the wall, then clicked with the select
\* and delete tools.
OverlapPoints == {Pt(10 * Unit, (3 * Unit) \div 10), Pt(15 * Unit, 0)}
OverlapTools == {"select", "delete"}

NextOverlap ==
    \/ \E p \in OverlapPoints : handleMouseDown(p) /\ Bounded(MaxOverlapId)
    \/ \E p \in OverlapPoints : handleMouseMove(p) /\ Bounded(MaxOverlapId)
    \/ handleMouseUp /\ Bounded(MaxOverlapId)
    \/ \E tool \in OverlapTools : onToolChange(tool)
    \/ handleAddDoor

SpecOverlap == InitWalled /\ [][NextOverlap]_vars

\* A pathway drawn while the wall is selected, and the Delete key.
SelectPoints == {Pt(0, 5 * Unit), Pt(5 * Unit, 5 * Unit)}
SelectKeys == {"Delete"}

NextSelect ==
    \/ \E p \in SelectPoints : handleMouseDown(p) /\ Bounded(MaxSelectId)
    \/ \E p \in SelectPoints : handleMouseMove(p) /\ Bounded(MaxSelectId)
    \/ handleMouseUp /\ Bounded(MaxSelectId)
    \/ \E key \in SelectKeys : handleKeyDown(key)
    \/ onStepClick("add-pathways")
    \/ handleStartPathwayDrawing

SpecSelect == InitWalled /\ [][NextSelect]_vars

\* Lines drawn with the snap setting toggled by its key, the pointer a
\* quarter of a foot off a grid point.
SnapPoints == {Pt(Unit \div 4, Unit \div 4), Pt(5 * Unit, 5 * Unit)}
SnapKeys == {"2", "s"}

NextSnap ==
    \/ \E p \in SnapPoints : handleMouseDown(p) /\ Bounded(MaxSessionId)
    \/ \E p \in SnapPoints : handleMouseMove(p) /\ Bounded(MaxSessionId)
    \/ handleMouseUp /\ Bounded(MaxSessionId)
    \/ \E key \in SnapKeys : handleKeyDown(key)

SpecSnap == Init /\ [][NextSnap]_vars

\* Driveways and patios dragged between the corners of an 8 ft by 30 ft
\* rectangle centred on the origin, and to a point 5 ft by 3 ft from a corner,
\* with the snap setting toggled by its key. The pointer goes down only while
\* no driveway or patio is selected: drags of their handles are not explored.
DrivePoints == {Pt(0 - 4 * Unit, 0 - 15 * Unit), Pt(4 * Unit, 15 * Unit),
                Pt(4 * Unit, 0 - 15 * Unit), Pt(0 - 4 * Unit, 15 * Unit),
                Pt(Unit, 0 - 12 * Unit)}
DriveSteps == {"add-driveways", "add-patios"}

NextDrive ==
    \/ \E p \in DrivePoints :
          /\ selectedDrivewayId = NULL /\ selectedPatioId = NULL
          /\ handleMouseDown(p) /\ Bounded(MaxSessionId)
    \/ \E p \in DrivePoints : handleMouseMove(p) /\ Bounded(MaxSessionId)
    \/ handleMouseUp /\ Bounded(MaxSessionId)
    \/ \E step \in DriveSteps : onStepClick(step)
    \/ handleStartDrivewayDrawing
    \/ handleStartPatioDrawing
    \/ handleKeyDown("s")

SpecDrive == Init /\ [][NextDrive]_vars

\* Pathway strokes of up to four samples, 0.2 ft, 0.3 ft and further apart.
SmoothPoints == {Pt(0, 0), Pt(4, 0), Pt(6, 0), Pt(12, 9)}
\* values of minDistance: 0, 0.15 ft, 0.3 ft (the caller's) and 0.5 ft (the default)
MinDistances == {0, (3 * Unit) \div 20, (3 * Unit) \div 10, Unit \div 2}

NextSmooth ==
    \/ \E p \in SmoothPoints :
          handleMouseDown(p) /\ BoundedStroke(MaxSessionId, MaxTurn, MaxStrokePoints)
    \/ \E p \in SmoothPoints :
          handleMouseMove(p) /\ BoundedStroke(MaxSessionId, MaxTurn, MaxStrokePoints)
    \/ handleMouseUp /\ BoundedStroke(MaxSessionId, MaxTurn, MaxStrokePoints)
    \/ onStepClick("add-pathways")
    \/ handleStartPathwayDrawing

SpecSmooth == Init /\ [][NextSmooth]_vars

\* A patio and a driveway, each 8 ft by 10 ft, as their drags leave them: both
\* selected, both drawing modes still on, the select tool picked afterwards.
ThePatio ==
    [id |-> 1, widthType |-> "small",
     vertices |-> <<Pt(0 - 4 * Unit, 0), Pt(4 * Unit, 0),
                    Pt(4 * Unit, 10 * Unit), Pt(0 - 4 * Unit, 10 * Unit)>>,
     rotation |-> 0]

TheDriveway ==
    [id |-> 2, widthType |-> "single",
     vertices |-> <<Pt(6 * Unit, 0), Pt(14 * Unit, 0),
                    Pt(14 * Unit, 10 * Unit), Pt(6 * Unit, 10 * Unit)>>,
     rotation |-> 0]

InitRects ==
    /\ shapes = <<>> /\ doors = <<>> /\ pathways = <<>>
    /\ patios = <<ThePatio>>
    /\ driveways = <<TheDriveway>>
    /\ selectedShapeId = NULL /\ selectedDoorId = NULL /\ selectedPathwayId = NULL
    /\ selectedPatioId = 1
    /\ selectedDrivewayId = 2
    /\ activeTool = "select"
    /\ snapEnabled = TRUE
    /\ currentStep = "add-driveways"
    /\ doorPlacementMode = PlacementOff
    /\ drivewayDrawingMode = TRUE
    /\ pathwayDrawingMode = FALSE
    /\ patioDrawingMode = TRUE
    /\ isDrawing = FALSE /\ currentPoints = <<>>
    /\ dragState = NoDrag /\ doorDragState = NoDrag
    /\ isPanning = FALSE /\ spacePressed = FALSE
    /\ toast = "Driveway Added"
    /\ nextId = 3
    /\ lastEvent = Event("onToolChange", "select")
    /\ rotateDrags = NoTurns
    /\ sessionTool = Unfollowed
    /\ resizeStart = NoDrag

\* The pointer on the patio's first edge midpoint, on the driveway's n handle
\* and at two points up and to the right of them.
EdgePoints == {Pt(0, 0), Pt(10 * Unit, 0), Pt(2 * Unit, 0 - 3 * Unit),
               Pt(12 * Unit, 0 - 3 * Unit)}

NextEdge ==
    \/ \E p \in EdgePoints : handleMouseDown(p) /\ Bounded(MaxPlaceId)
    \/ \E p \in EdgePoints : handleMouseMove(p) /\ Bounded(MaxPlaceId)
    \/ handleMouseUp /\ Bounded(MaxPlaceId)

SpecEdge == InitRects /\ [][NextEdge]_vars

\* Polygons of up to four vertices and rectangles on the corners of an
\* arrowhead whose vertex (5,5) ft is a notch. The pointer goes down only until
\* the first shape is stored.
HitPoints == {Pt(0, 0), Pt(10 * Unit, 5 * Unit), Pt(0, 10 * Unit), Pt(5 * Unit, 5 * Unit)}
HitKeys == {"Enter", "3", "4"}

NextHit ==
    \/ \E p \in HitPoints :
          /\ shapes = <<>>
          /\ handleMouseDown(p) /\ BoundedStroke(MaxSessionId, MaxTurn, MaxStrokePoints)
    \/ \E p \in HitPoints :
          handleMouseMove(p) /\ BoundedStroke(MaxSessionId, MaxTurn, MaxStrokePoints)
    \/ handleMouseUp /\ BoundedStroke(MaxSessionId, MaxTurn, MaxStrokePoints)
    \/ handleDoubleClick /\ BoundedStroke(MaxSessionId, MaxTurn, MaxStrokePoints)
    \/ \E key \in HitKeys :
          handleKeyDown(key) /\ BoundedStroke(MaxSessionId, MaxTurn, MaxStrokePoints)

SpecHit == Init /\ [][NextHit]_vars

AddedOne(old, new) == Len(new) = Len(old) + 1 /\ SubSeq(new, 1, Len(old)) = old

InPolygonSession == isDrawing /\ activeTool = "polygon"

\* what C2 asks of one step of a polygon session
PolygonStep ==
    /\ (\E p \in PolygonPoints : handleMouseDown(p)) =>
          /\ AddedOne(currentPoints, currentPoints')
          /\ isDrawing'
          /\ UNCHANGED collections
    /\ handleMouseUp => UNCHANGED <<collections, session>>
    /\ ((handleDoubleClick \/ handleKeyDown("Enter")) /\ Len(currentPoints) >= 2) =>
          /\ AddedOne(shapes, shapes')
          /\ shapes'[Len(shapes')].type = "polygon"
          /\ shapes'[Len(shapes')].vertices = currentPoints
          /\ ~isDrawing' /\ currentPoints' = <<>>
          /\ UNCHANGED <<doors, driveways, pathways, patios>>
    /\ ((handleDoubleClick \/ handleKeyDown("Enter")) /\ Len(currentPoints) < 2) =>
          UNCHANGED <<collections, session>>

InStrokeSession == isDrawing /\ activeTool \in {"line", "rectangle", "freehand"}

\* what C3 asks of a pointer-up
StrokeEnds ==
    /\ ~isDrawing' /\ currentPoints' = <<>>
    /\ IF Len(currentPoints) >= 2
       THEN /\ doors' = doors
            /\ \/ AddedOne(shapes, shapes') /\ UNCHANGED <<driveways, pathways, patios>>
               \/ AddedOne(driveways, driveways') /\ UNCHANGED <<shapes, pathways, patios>>
               \/ AddedOne(pathways, pathways') /\ UNCHANGED <<shapes, driveways, patios>>
               \/ AddedOne(patios, patios') /\ UNCHANGED <<shapes, driveways, pathways>>
       ELSE UNCHANGED collections

\* C3: in a line, rectangle or freehand session with no pan and no drag in
\* progress, a pointer-up ends the session, appending exactly one entity to
\* exactly one collection when the session holds at least two points and
\* changing no collection otherwise.
C3_StrokeEndsOnPointerUp ==
    [][(/\ InStrokeSession
        /\ ~isPanning /\ ~doorDragState.active /\ ~dragState.active
        /\ handleMouseUp) => StrokeEnds]_vars

\* C3 as stated, whatever else is in progress
C3_AsStated == [][(InStrokeSession /\ handleMouseUp) => StrokeEnds]_vars

\* A freehand stroke has just become the one pathway.
C3_Witness ==
    /\ lastEvent = Event("handleMouseUp", "pathway")
    /\ Len(pathways) = 1 /\ shapes = <<>>
    /\ ~isDrawing /\ currentPoints = <<>>

\* C4: in a polygon session of n >= 1 vertices, Backspace removes exactly the
\* last vertex and changes no collection and no selection.
C4_BackspaceUndoesLastVertex ==
    [][(InPolygonSession /\ Len(currentPoints) >= 1 /\ handleKeyDown("Backspace")) =>
          /\ currentPoints' = SubSeq(currentPoints, 1, Len(currentPoints) - 1)
          /\ UNCHANGED <<collections, selection>>]_vars

\* ------------------------------------------------------- door placement
AllSegments ==
    UNION {{<<k, i>> : i \in 0..(SegCount(shapes[k]) - 1)} : k \in 1..Len(shapes)}

SegDist2(p, c) == DistToSegment2(p, SegStart(shapes[c[1]], c[2]), SegEnd(shapes[c[1]], c[2]))

\* the segments of wall-bearing shapes at most 1.0 ft from p
WithinThreshold(p) ==
    {c \in AllSegments : IsWallBearing(shapes[c[1]]) /\ SegDist2(p, c) <= Unit * Unit}

\* the segments of non-zero length of wall-bearing shapes less than 1.0 ft from p
StrictlyNear(p) ==
    {c \in AllSegments :
        /\ IsWallBearing(shapes[c[1]])
        /\ SegStart(shapes[c[1]], c[2]) # SegEnd(shapes[c[1]], c[2])
        /\ SegDist2(p, c) < Unit * Unit}

NotPanning == ~spacePressed /\ activeTool # "pan"

Warned ==
    /\ UNCHANGED <<collections, selection, session>>
    /\ toast' = "Invalid Placement"

\* C5: in door-placement mode, a pointerDown that the pan tool or the space
\* bar does not take and for which no wall segment lies within 1.0 ft leaves
\* every collection, every selection and the drawing session unchanged and
\* shows the "Invalid Placement" warning.
C5_InvalidPlacementWarns ==
    [][\A p \in PlacePoints :
          (doorPlacementMode.active /\ NotPanning /\ WithinThreshold(p) = {}
              /\ handleMouseDown(p)) => Warned]_vars

\* C5 as stated, for every pointerDown in door-placement mode
C5_AsStated ==
    [][\A p \in PlacePoints :
          (doorPlacementMode.active /\ WithinThreshold(p) = {} /\ handleMouseDown(p))
              => Warned]_vars

C5_Witness ==
    /\ lastEvent = Event("handleMouseDown", "invalidPlacement")
    /\ toast = "Invalid Placement"
    /\ doorPlacementMode.active /\ doors = <<>> /\ shapes = <<TheWall>>

\* doors' is doors with one door appended, bound to a segment of near nearest to p
PlacedOnNearest(p, near) ==
    /\ Len(doors') = Len(doors) + 1
    /\ SubSeq(doors', 1, Len(doors)) = doors
    /\ \E c \in near :
          /\ \A d \in near : SegDist2(p, c) <= SegDist2(p, d)
          /\ doors'[Len(doors')].wallShapeId = shapes[c[1]].id
          /\ doors'[Len(doors')].wallSegmentIndex = c[2]
          /\ doors'[Len(doors')].position =
                ClosestOnSegment(p, SegStart(shapes[c[1]], c[2]), SegEnd(shapes[c[1]], c[2]))
          /\ doors'[Len(doors')].rotation =
                Atan2Deg(SegEnd(shapes[c[1]], c[2]).y - SegStart(shapes[c[1]], c[2]).y,
                         SegEnd(shapes[c[1]], c[2]).x - SegStart(shapes[c[1]], c[2]).x)

\* on the wall (0,0)-(20,0) ft a click at (10, 0.3) ft gives position (10, 0), rotation 0
ExamplePlaced ==
    shapes = <<TheWall>> =>
        /\ doors'[Len(doors')].position = Pt(10 * Unit, 0)
        /\ doors'[Len(doors')].rotation = 0

C7_DoorsStayOnTheirWalls ==
    \A i \in 1..Len(doors) :
        /\ Has(shapes, doors[i].wallShapeId)
        /\ doors[i].wallSegmentIndex < SegCount(Sel(shapes, doors[i].wallShapeId))
        /\ DistToSegment2(doors[i].position,
                          SegStart(Sel(shapes, doors[i].wallShapeId), doors[i].wallSegmentIndex),
                          SegEnd(Sel(shapes, doors[i].wallShapeId), doors[i].wallSegmentIndex)) = 0

\* the squared length of the wall segment door d is bound to
BoundLength2(shs, d) ==
    Dist2(SegStart(Sel(shs, d.wallShapeId), d.wallSegmentIndex),
          SegEnd(Sel(shs, d.wallShapeId), d.wallSegmentIndex))

\* C8: after every move of a start-handle or end-handle drag the door's width
\* lies in [2 ft, L], L the length of the wall segment the door is bound to.
C8_ResizedWidthInRange ==
    [][\A p \in ResizePoints :
          (/\ doorDragState.active
           /\ doorDragState.handle \in {"start", "end"}
           /\ Has(doors, doorDragState.doorId)
           /\ Has(shapes, Sel(doors, doorDragState.doorId).wallShapeId)
           /\ handleMouseMove(p))
          => /\ Sel(doors', doorDragState.doorId).width >= MIN_DOOR_WIDTH_FT * Unit
             /\ Sel(doors', doorDragState.doorId).width
                    * Sel(doors', doorDragState.doorId).width
                  <= BoundLength2(shapes', Sel(doors', doorDragState.doorId))]_vars

\* the segments of wall-bearing shapes at most 2.0 ft from p
WithinDragThreshold(p) ==
    {c \in AllSegments :
        IsWallBearing(shapes[c[1]]) /\ SegDist2(p, c) <= (2 * Unit) * (2 * Unit)}

\* door d re-bound to a segment of near nearest to p
ReboundToNearest(d, p, near) ==
    \E c \in near :
        /\ \A e \in near : SegDist2(p, c) <= SegDist2(p, e)
        /\ d.wallShapeId = shapes[c[1]].id
        /\ d.wallSegmentIndex = c[2]
        /\ d.position =
              ClosestOnSegment(p, SegStart(shapes[c[1]], c[2]), SegEnd(shapes[c[1]], c[2]))
        /\ d.rotation =
              Atan2Deg(SegEnd(shapes[c[1]], c[2]).y - SegStart(shapes[c[1]], c[2]).y,
                       SegEnd(shapes[c[1]], c[2]).x - SegStart(shapes[c[1]], c[2]).x)

\* C9: on every pointer move of a door center drag, the door is re-bound to
\* the nearest segment of a wall-bearing shape within 2.0 ft of the pointer,
\* and is left as it was when no segment is within 2.0 ft.
C9_CenterDragRebinds ==
    [][\A p \in DoorPoints :
          (/\ doorDragState.active
           /\ doorDragState.handle = "center"
           /\ Has(doors, doorDragState.doorId)
           /\ handleMouseMove(p))
          => IF WithinDragThreshold(p) # {}
             THEN ReboundToNearest(Sel(doors', doorDragState.doorId), p, WithinDragThreshold(p))
             ELSE Sel(doors', doorDragState.doorId) = Sel(doors, doorDragState.doorId)]_vars

\* C10: at every reachable state the stored rotation of every shape and every
\* driveway lies in [0, 360).
C10_RotationInRange ==
    /\ \A i \in 1..Len(shapes) : shapes[i].rotation >= 0 /\ shapes[i].rotation < 360
    /\ \A i \in 1..Len(driveways) : driveways[i].rotation >= 0 /\ driveways[i].rotation < 360

\* ------------------------------------------------------------ rotation
\* the stored rotation of the shape or driveway id
StoredRotation(id) ==
    IF Has(shapes, id) THEN Sel(shapes, id).rotation ELSE Sel(driveways, id).rotation

\* C11: after four rotate-handle drags of 90 degrees in succession the
\* entity's stored rotation equals its rotation before the first drag, modulo 360.
C11_FourQuarterTurnsReturn ==
    (rotateDrags.count = QuarterTurns /\ (Has(shapes, rotateDrags.id) \/ Has(driveways, rotateDrags.id)))
        => (StoredRotation(rotateDrags.id) - rotateDrags.base) % 360 = 0

\* ----------------------------------------------------------- rectangles
\* four vertices, each joined to the next by a side parallel to an axis,
\* the sides alternating between the axes
CornerOrdered(vs) ==
    /\ Len(vs) = 4
    /\ \/ /\ vs[1].y = vs[2].y /\ vs[2].x = vs[3].x
          /\ vs[3].y = vs[4].y /\ vs[4].x = vs[1].x
       \/ /\ vs[1].x = vs[2].x /\ vs[2].y = vs[3].y
          /\ vs[3].x = vs[4].x /\ vs[4].y = vs[1].y

\* C12: at every reachable state every shape of type rectangle, every
\* driveway and every patio has exactly 4 vertices in corner order.
C12_RectanglesHaveFourCorners ==
    /\ \A i \in 1..Len(shapes) :
          shapes[i].type = "rectangle" => CornerOrdered(shapes[i].vertices)
    /\ \A i \in 1..Len(driveways) : CornerOrdered(driveways[i].vertices)
    /\ \A i \in 1..Len(patios) : CornerOrdered(patios[i].vertices)

\* ------------------------------------------------------------ polylines
\* C13: at every reachable state every shape and every pathway has at least
\* 2 vertices, pathways smoothed from a freehand capture included.
C13_AtLeastTwoVertices ==
    /\ \A i \in 1..Len(shapes) : Len(shapes[i].vertices) >= 2
    /\ \A i \in 1..Len(pathways) : Len(pathways[i].vertices) >= 2

\* C17: while a pathway is captured with the freehand tool, the first point
\* of the session and every point sampled after it is the raw world position
\* of the pointer, whatever the snap setting.
C17_PathwayCaptureIsRaw ==
    [][\A p \in PathPoints :
          /\ (pathwayDrawingMode /\ activeTool = "freehand"
                 /\ MouseDownBranch(p) = "startDrawing" /\ handleMouseDown(p))
             => currentPoints' = <<p>>
          /\ (pathwayDrawingMode /\ activeTool = "freehand"
                 /\ MouseMoveBranch = "freehand" /\ handleMouseMove(p))
             => currentPoints' = Append(currentPoints, p)]_vars

\* ------------------------------------------------- selection and deletion
\* the kind the precedence door, patio, pathway, driveway, shape picks at p
KindAt(p) ==
    IF \E i \in 1..Len(doors) : DoorHit(p, doors[i]) THEN "door"
    ELSE IF \E i \in 1..Len(patios) : isPointInPatio(p, patios[i]) THEN "patio"
    ELSE IF \E i \in 1..Len(pathways) : isPointNearPathway(p, pathways[i]) THEN "pathway"
    ELSE IF \E i \in 1..Len(driveways) : isPointInDriveway(p, driveways[i]) THEN "driveway"
    ELSE IF \E i \in 1..Len(shapes) : isPointInShape(p, shapes[i]) THEN "shape"
    ELSE "none"

\* the entity of that kind drawn last among those hit at p
TopAt(p) ==
    IF KindAt(p) = "door" THEN LastHit(doors, LAMBDA d : DoorHit(p, d))
    ELSE IF KindAt(p) = "patio" THEN LastHit(patios, LAMBDA e : isPointInPatio(p, e))
    ELSE IF KindAt(p) = "pathway" THEN LastHit(pathways, LAMBDA e : isPointNearPathway(p, e))
    ELSE IF KindAt(p) = "driveway" THEN LastHit(driveways, LAMBDA e : isPointInDriveway(p, e))
    ELSE LastHit(shapes, LAMBDA e : isPointInShape(p, e))

DeletedTop(p) ==
    /\ doors' = IF KindAt(p) = "door" THEN FilterOut(doors, TopAt(p)) ELSE doors
    /\ patios' = IF KindAt(p) = "patio" THEN FilterOut(patios, TopAt(p)) ELSE patios
    /\ pathways' = IF KindAt(p) = "pathway" THEN FilterOut(pathways, TopAt(p)) ELSE pathways
    /\ driveways' = IF KindAt(p) = "driveway" THEN FilterOut(driveways, TopAt(p)) ELSE driveways
    /\ shapes' = IF KindAt(p) = "shape" THEN FilterOut(shapes, TopAt(p)) ELSE shapes

SelectedTop(p) ==
    /\ UNCHANGED collections
    /\ KindAt(p) = "door" => selectedDoorId' = TopAt(p)
    /\ KindAt(p) = "patio" => selectedPatioId' = TopAt(p)
    /\ KindAt(p) = "pathway" => selectedPathwayId' = TopAt(p)
    /\ KindAt(p) = "driveway" => selectedDrivewayId' = TopAt(p)
    /\ KindAt(p) = "shape" => selectedShapeId' = TopAt(p)

HandleHit(p) ==
    SelectBranch(p) \in {"doorHandle", "patioHandle", "drivewayHandle", "shapeHandle"}

\* C14: a click with the delete tool, or with the select tool off the handles
\* of the selected entity, deletes or selects exactly the entity picked by the
\* precedence door, patio, pathway, driveway, shape and, within the kind, the
\* one drawn last among those hit.
C14_ClickPicksTopmost ==
    [][\A p \in OverlapPoints :
          (NotPanning /\ ~doorPlacementMode.active /\ KindAt(p) # "none"
              /\ handleMouseDown(p))
          => /\ activeTool = "delete" => DeletedTop(p)
             /\ (activeTool = "select" /\ ~HandleHit(p)) => SelectedTop(p)]_vars

\* the kinds whose selection names an entity of the collection
SelectedKinds ==
    {k \in {"shape", "door", "driveway", "pathway", "patio"} :
        \/ k = "shape" /\ Has(shapes, selectedShapeId)
        \/ k = "door" /\ Has(doors, selectedDoorId)
        \/ k = "driveway" /\ Has(driveways, selectedDrivewayId)
        \/ k = "pathway" /\ Has(pathways, selectedPathwayId)
        \/ k = "patio" /\ Has(patios, selectedPatioId)}

\* the selected entity of kind k is removed, its selection cleared, and the
\* collections of the other kinds are as they were
RemovedOnly(k) ==
    /\ shapes' = IF k = "shape" THEN FilterOut(shapes, selectedShapeId) ELSE shapes
    /\ doors' = IF k = "door" THEN FilterOut(doors, selectedDoorId) ELSE doors
    /\ driveways' = IF k = "driveway" THEN FilterOut(driveways, selectedDrivewayId)
                    ELSE driveways
    /\ pathways' = IF k = "pathway" THEN FilterOut(pathways, selectedPathwayId) ELSE pathways
    /\ patios' = IF k = "patio" THEN FilterOut(patios, selectedPatioId) ELSE patios
    /\ k = "shape" => selectedShapeId' = NULL
    /\ k = "door" => selectedDoorId' = NULL
    /\ k = "driveway" => selectedDrivewayId' = NULL
    /\ k = "pathway" => selectedPathwayId' = NULL
    /\ k = "patio" => selectedPatioId' = NULL

\* C15: with no drawing session in progress and an entity selected, Delete
\* removes exactly that entity, clears its selection and changes no other entity.
C15_DeleteRemovesTheSelected ==
    [][(~isDrawing /\ handleKeyDown("Delete")) =>
          \A k \in SelectedKinds : RemovedOnly(k)]_vars

\* C16: at every reachable state at most one entity across the five kinds
\* is selected.
C16_AtMostOneSelected ==
    Cardinality({k \in {"shape", "door", "driveway", "pathway", "patio"} :
                    \/ k = "shape" /\ selectedShapeId # NULL
                    \/ k = "door" /\ selectedDoorId # NULL
                    \/ k = "driveway" /\ selectedDrivewayId # NULL
                    \/ k = "pathway" /\ selectedPathwayId # NULL
                    \/ k = "patio" /\ selectedPatioId # NULL}) <= 1

\* ------------------------------------------------------------- snapping
\* the vertices of the shapes within 0.5 ft of point c
VerticesNear(c) == {v \in AllVertices(shapes) : 4 * Dist2(c, v) <= Unit * Unit}

\* C18: with snapping enabled, a drawing point whose grid-snapped candidate
\* lies within 0.5 ft of an existing vertex is committed to the session as
\* that vertex.
C18_CommitsTheNearVertex ==
    [][\A p \in SnapPoints :
          /\ (snapEnabled /\ VerticesNear(snapToGrid(p)) # {}
                 /\ MouseDownBranch(p) \in {"startDrawing", "addPoint"} /\ handleMouseDown(p))
             => currentPoints'[Len(currentPoints')] \in VerticesNear(snapToGrid(p))
          /\ (snapEnabled /\ VerticesNear(snapToGrid(p)) # {}
                 /\ ~(pathwayDrawingMode /\ activeTool = "freehand")
                 /\ MouseMoveBranch \in {"freehand", "rubber"} /\ handleMouseMove(p))
             => currentPoints'[Len(currentPoints')] \in VerticesNear(snapToGrid(p))]_vars

\* --------------------------------------------------- constrained rectangles
VertexSet(vs) == {vs[i] : i \in 1..Len(vs)}

\* the drags from each corner of the rectangle spanned by a and b to the
\* opposite corner
FourDrags(a, b) ==
    {<<Pt(x, y), Pt(a.x + b.x - x, a.y + b.y - y)>> : x \in {a.x, b.x}, y \in {a.y, b.y}}

CreatesConstrained == MouseUpBranch \in {"driveway", "patio"} /\ Len(currentPoints) = 2

\* the vertices of the driveway or patio the pointer-up creates
CreatedVertices ==
    IF MouseUpBranch = "driveway" THEN driveways'[Len(driveways')].vertices
    ELSE patios'[Len(patios')].vertices

TargetWidth ==
    IF MouseUpBranch = "driveway" THEN DRIVEWAY_SINGLE_FT * Unit ELSE PATIO_SMALL_FT * Unit

\* C19: the driveway or patio created by a drag has the vertex set that
\* constrainRectangleWidth(createRectangleVertices(drag), targetWidth) yields
\* for the drag from each of the four corners of the same raw rectangle; an
\* 8 ft by 30 ft raw drag with target width 8 ft gives that 8 ft by 30 ft
\* rectangle.
C19_SameFromEveryCorner ==
    [][(CreatesConstrained /\ handleMouseUp)
          => LET a == currentPoints[1]
                 b == currentPoints[2]
             IN  /\ \A drag \in FourDrags(a, b) :
                       VertexSet(constrainRectangleWidth(createRectangleVertices(drag),
                                                         TargetWidth))
                         = VertexSet(CreatedVertices)
                 /\ a # b => Cardinality(VertexSet(CreatedVertices)) = 4
                 /\ (Abs(a.x - b.x) = 8 * Unit /\ Abs(a.y - b.y) = 30 * Unit
                        /\ TargetWidth = 8 * Unit)
                    => VertexSet(CreatedVertices)
                         = {Pt(x, y) : x \in {a.x, b.x}, y \in {a.y, b.y}}]_vars

C19_Witness ==
    /\ lastEvent = Event("handleMouseUp", "driveway")
    /\ ~snapEnabled
    /\ driveways # <<>>
    /\ VertexSet(driveways[Len(driveways)].vertices)
         = {Pt(x, y) : x \in {0 - 4 * Unit, 4 * Unit}, y \in {0 - 15 * Unit, 15 * Unit}}

\* the created rectangle keeps the raw x extent and is target-width high
\* about the raw centre line
KeepsX(made, a, b, w) ==
    /\ {v.x : v \in made} = {a.x, b.x}
    /\ {2 * v.y : v \in made} = {a.y + b.y - w, a.y + b.y + w}

KeepsY(made, a, b, w) ==
    /\ {v.y : v \in made} = {a.y, b.y}
    /\ {2 * v.x : v \in made} = {a.x + b.x - w, a.x + b.x + w}

\* a drag between two corners that differ in both coordinates
ProperDrag ==
    /\ CreatesConstrained
    /\ currentPoints[1].x # currentPoints[2].x
    /\ currentPoints[1].y # currentPoints[2].y

C21_SmoothedSpacing ==
    \A i \in 1..Len(pathways) :
       \A j \in 1..(Len(pathways[i].vertices) - 2) :
          100 * Dist2(pathways[i].vertices[j], pathways[i].vertices[j + 1])
             >= 9 * Unit * Unit

\* the output is no longer than the input and keeps its two ends
KeepsEnds(in, out) ==
    /\ Len(out) <= Len(in)
    /\ out[1] = in[1]
    /\ out[Len(out)] = in[Len(in)]

\* C22: smoothPathway returns at most as many points as its input, and its
\* first and last output points are the first and last input points, for the
\* stroke a pointer-up smooths and for every minDistance.
C22_SmoothedKeepsEnds ==
    [][(MouseUpBranch = "pathway" /\ handleMouseUp)
          => /\ KeepsEnds(currentPoints, pathways'[Len(pathways')].vertices)
             /\ \A d \in MinDistances :
                   KeepsEnds(currentPoints, smoothPathway(currentPoints, d))]_vars

\* a stroke that lost a sample and had its interior averaged
C22_Witness ==
    /\ lastEvent = Event("handleMouseUp", "pathway")
    /\ pathways # <<>>
    /\ pathways[Len(pathways)].vertices = <<Pt(0, 0), Pt(6, 3), Pt(12, 9)>>

\* ------------------------------------------------------------ edge drags
\* vertex i of vs lies on the box edge the handle name stands on
OnBoxEdge(vs, name, i) ==
    IF name = "n" THEN vs[i].y = SeqMin(Ys(vs))
    ELSE IF name = "s" THEN vs[i].y = SeqMax(Ys(vs))
    ELSE IF name = "e" THEN vs[i].x = SeqMax(Xs(vs))
    ELSE vs[i].x = SeqMin(Xs(vs))

\* new is orig with the vertices picked by Dragged moved by p - startPoint
EdgeTranslated(new, orig, p, Dragged(_)) ==
    /\ Len(new) = Len(orig)
    /\ \A i \in 1..Len(orig) :
          new[i] = IF Dragged(i)
                   THEN Pt(orig[i].x + p.x - dragState.startPoint.x,
                           orig[i].y + p.y - dragState.startPoint.y)
                   ELSE orig[i]

\* C23: on every pointer move of an edge-midpoint drag of a 4-vertex driveway
\* or patio, the two vertices of the dragged edge are at their drag-start
\* positions plus (pointer - drag start) and the other two at their
\* drag-start positions.
C23_EdgeDragTranslates ==
    [][\A p \in EdgePoints :
          /\ (MouseMoveBranch = "patioEdge" /\ Len(dragState.originalVertices) = 4
                 /\ handleMouseMove(p))
             => LET e == dragState.handle.index + 1
                    Dragged(i) == i = e \/ i = (e % 4) + 1
                IN  EdgeTranslated(Sel(patios', dragState.shapeId).vertices,
                                   dragState.originalVertices, p, Dragged)
          /\ (MouseMoveBranch = "driveway" /\ Len(dragState.originalVertices) = 4
                 /\ dragState.handle.name \in {"n", "e", "s", "w"}
                 /\ handleMouseMove(p))
             => LET Dragged(i) == OnBoxEdge(dragState.originalVertices,
                                            dragState.handle.name, i)
                IN  EdgeTranslated(Sel(driveways', dragState.shapeId).vertices,
                                   dragState.originalVertices, p, Dragged)]_vars

\* ------------------------------------------------------- rotated handles
\* the hit radius of findHandleAtPoint for a handle type
HitRadius(type) == IF type = "rotate" THEN PxToUnits(10) ELSE PxToUnits(8)

\* C24: for the selected shape, whatever its stored rotation, findHandleAtPoint
\* at the position where a handle is drawn returns a handle drawn within its
\* hit radius of that position.
C24_HandlesHitWhereDrawn ==
    Has(shapes, selectedShapeId)
       => LET shape == Sel(shapes, selectedShapeId)
              drawn == drawHandles(shape)
          IN  \A i \in 1..Len(drawn) :
                 \E j \in 1..Len(drawn) :
                    /\ findHandleAtPoint(shape, drawn[i].pos) = drawn[j].type
                    /\ Dist2(drawn[j].pos, drawn[i].pos)
                          <= HitRadius(drawn[j].type) * HitRadius(drawn[j].type)

\* ------------------------------------------------------ point in polygon
\* q lies on the segment from a to b
OnSegment(q, a, b) ==
    /\ (b.x - a.x) * (q.y - a.y) = (b.y - a.y) * (q.x - a.x)
    /\ Min2(a.x, b.x) <= q.x /\ q.x <= Max2(a.x, b.x)
    /\ Min2(a.y, b.y) <= q.y /\ q.y <= Max2(a.y, b.y)

\* q lies on the closed boundary through vs
OnBoundary(q, vs) == \E i \in 1..Len(vs) : OnSegment(q, vs[i], vs[(i % Len(vs)) + 1])

\* the even-odd rule along the ray from q to the left, an edge owning its
\* lower end
InsideEvenOdd(q, vs) ==
    LET n == Len(vs)
        crosses(i) ==
            LET a == vs[i]
                b == vs[(i % n) + 1]
            IN  /\ (a.y >= q.y) # (b.y >= q.y)
                /\ IF b.y - a.y > 0
                   THEN (q.x - a.x) * (b.y - a.y) > (b.x - a.x) * (q.y - a.y)
                   ELSE (q.x - a.x) * (b.y - a.y) < (b.x - a.x) * (q.y - a.y)
    IN  Cardinality({i \in 1..n : crosses(i)}) % 2 = 1

\* probe coordinates in units: inside the box, within its 0.5 ft margin
\* and beyond it
ProbeCoords == {0 - 15, 0 - 5, 50, 75, 100, 150, 205, 215}

initialViewTransform == [panX |-> 0, panY |-> 0, zoom |-> 100]
ViewPans == {0 - 250, 0, 120}
ZoomSteps == 2

RECURSIVE ZoomsAfter(_)
ZoomsAfter(n) ==
    IF n = 0 THEN {initialViewTransform}
    ELSE LET before == ZoomsAfter(n - 1)
         IN  before \cup {handleZoomIn(t) : t \in before}
                    \cup {handleZoomOut(t) : t \in before}

ZoomLimits == {[initialViewTransform EXCEPT !.zoom = 10],
               [initialViewTransform EXCEPT !.zoom = 500]}

ViewTransforms ==
    {[t EXCEPT !.panX = px, !.panY = py] :
        t \in ZoomsAfter(ZoomSteps) \cup ZoomLimits, px \in ViewPans, py \in ViewPans}

EditingDpis == {96, 300}
CanvasSizes == {[width |-> 800, height |-> 600], [width |-> 1023, height |-> 767]}

\* the world points on the canvas: the pointer's, the stroke's, the shapes'
WorldPoints ==
    SnapPoints
      \cup {currentPoints[i] : i \in 1..Len(currentPoints)}
      \cup UNION {{shapes[i].vertices[j] : j \in 1..Len(shapes[i].vertices)} :
                     i \in 1..Len(shapes)}

RoundTrips(p) ==
    \A t \in ViewTransforms, dpi \in EditingDpis, size \in CanvasSizes :
        canvasToWorld(worldToCanvas(p, t, dpi, size.width, size.height),
                      t, dpi, size.width, size.height) = p

RotateDragging ==
    /\ dragState.active
    /\ MouseMoveBranch \in {"shape", "driveway"}
    /\ dragState.handle.kind = "box"
    /\ dragState.handle.name = "rotate"
    /\ rotateDrags.id = dragState.shapeId

\* C27: within one rotate-handle drag, after any number of pointer moves, the
\* entity's stored rotation is its rotation at the drag's start plus the
\* rotation delta from the drag-start snapshot to the latest pointer position:
\* every move leaves the stored rotation less that delta, the rotation at the
\* drag's start, as it was.
C27_RotationFollowsPointer ==
    [][\A p \in QuarterPoints :
          (RotateDragging /\ handleMouseMove(p))
             => StoredRotation(dragState.shapeId)' - rotateDrags'.angle
                  = StoredRotation(dragState.shapeId) - rotateDrags.angle]_vars

\* ------------------------------------------------- tool changes in a session
\* the step appends an entity drawn by a session to its collection
CreatesDrawn ==
    \/ Len(shapes') > Len(shapes)
    \/ Len(driveways') > Len(driveways)
    \/ Len(pathways') > Len(pathways)
    \/ Len(patios') > Len(patios)

\* the kind of the entity the step appends is the one the tool draws
KindMatches(tool) ==
    /\ Len(shapes') > Len(shapes) =>
          shapes'[Len(shapes')].type
             = (IF tool \in {"rectangle", "freehand", "polygon"} THEN tool ELSE "line")
    /\ Len(driveways') > Len(driveways) => tool = "rectangle"
    /\ Len(patios') > Len(patios) => tool = "rectangle"
    /\ Len(pathways') > Len(pathways) => tool = "freehand"

\* C28: if the active tool changes during a drawing session, the points
\* captured under the previous tool are never committed: every entity is
\* created by the tool under which the pointer-down started its session, and
\* its kind matches that tool.
C28_CommitsUnderTheStartingTool ==
    [][CreatesDrawn => (sessionTool = activeTool /\ KindMatches(sessionTool))]_vars

\* -------------------------------------------------------------- selections
\* C29: at every reachable state every selected id that is not null refers
\* to an entity present in its collection; a deletion by the delete tool or
\* the Delete key never leaves the deleted entity selected.
C29_SelectionsPresent ==
    /\ selectedShapeId # NULL => Has(shapes, selectedShapeId)
    /\ selectedDoorId # NULL => Has(doors, selectedDoorId)
    /\ selectedDrivewayId # NULL => Has(driveways, selectedDrivewayId)
    /\ selectedPathwayId # NULL => Has(pathways, selectedPathwayId)
    /\ selectedPatioId # NULL => Has(patios, selectedPatioId)

\* ----------------------------------------------------- resize and return
\* a width-handle drag is under way and the pointer, after a move, is where
\* the drag started
ReturnedToStart ==
    /\ doorDragState.active
    /\ doorDragState.handle \in {"start", "end"}
    /\ resizeStart.active
    /\ lastEvent = Event("handleMouseMove", "doorResize")
    /\ doorDragState.startPoint = resizeStart.point
    /\ Has(doors, doorDragState.doorId)

\* C30: a door resize drag whose pointer moves away along the wall and
\* returns to the position where the drag started leaves the door's width
\* equal to its width at the drag's start, whatever the path in between.
C30_ReturnRestoresWidth ==
    ReturnedToStart => Sel(doors, doorDragState.doorId).width = resizeStart.width

====
